---- MODULE Spec2Model ----
(***************************************************************************)
(* Model of the review-response parsing code of plotchecker:               *)
(*   src/app.py            parse_review_response, rewrite result display   *)
(*   src/utils/reviewer.py ScenarioReviewer._parse_review_response,        *)
(*                         ScenarioReviewer._parse_rewrite_response        *)
(*                                                                         *)
(* A Python str is a sequence of characters; a character is a one-symbol   *)
(* TLA+ string.  The module text is ASCII, so the non-ASCII characters of  *)
(* the source are written with these stand-ins:                            *)
(*     "["  U+3010 (opening bracket of a header)                           *)
(*     "]"  U+3011 (closing bracket of a header)                           *)
(*     ":"  U+FF1A (full-width colon)                                      *)
(*     ">"  U+2192 (arrow)                                                 *)
(*     "ri" "ra" "i" "to" "go"   the five characters between the brackets  *)
(*                               of the rewritten-section marker           *)
(*     "hen" "kou" "ten"         the three characters between the brackets *)
(*                               of the changes-section marker             *)
(*     "so" "no" "ta"            the three characters of the category the  *)
(*                               summary counts a record without category  *)
(*                               under                                     *)
(*     "(" "yi" "ge" "shou" "ryaku" ")"   the six characters, full-width   *)
(*                               brackets included, that end the mark of a *)
(*                               shortened transcript                      *)
(*     "gt" the greater-than sign of the highlighter's markup (">" being   *)
(*          taken by the arrow)                                            *)
(* "a" and "b" are ordinary characters, " " is a whitespace character and  *)
(* "\n" is the line break.                                                 *)
(***************************************************************************)
EXTENDS Naturals, Sequences, FiniteSets

VARIABLES
    pc,                 \* position of the running call
    fn,                 \* the function being run
    response_text,      \* the argument of the call
    lines,              \* response_text.split('\n')
    idx,                \* index in lines of the line the loop handles next
    current_category,   \* local current_category of the extractors
    reviews,            \* local reviews (app.py) / issues (reviewer.py)
    suggestions,        \* local suggestions (reviewer.py)
    overall_evaluation, \* local overall_evaluation (reviewer.py)
    rewritten,          \* local rewritten of the rewrite splitter
    changes,            \* local changes of the rewrite splitter
    content,            \* the content argument (highlighter, run action)
    highlighted_content,\* local highlighted_content of the highlighter
    summary,            \* local summary / category_counts of the aggregator
    caller,             \* who calls the model: a method of ScenarioReviewer, the run action
    attempt,            \* local attempt of review_content
    calls,              \* the generate_content calls of the running method
    exception,          \* the exception a method has raised
    user_name,          \* st.session_state.user_name
    backup_data,        \* st.session_state.backup_data
    review_history,     \* st.session_state.review_history
    clock,              \* the readings of datetime.now() so far
    backup_log,         \* every entry create_backup has appended, in call order
    earlier,            \* the call and the result a second call is compared with
    round,              \* the number of calls made in a sequence of calls
    phase,              \* the phase argument of process_document
    review_points,      \* local review_points of process_document
    document,           \* the dict process_document returns
    review_result,      \* the ReviewResult object given to rewrite_content
    returned,           \* the object rewrite_content has returned
    video,              \* the transcripts of the video, as the library lists them
    languages,          \* the languages argument of get_transcript
    candidates,         \* local candidates of get_transcript
    fetched,            \* the transcripts fetched so far, in the order of the fetches
    transcript,         \* what get_transcript returns, local transcript of get_summary
    max_length,         \* the max_length argument of get_summary
    info                \* the dict get_summary returns

\* The locals of the highlighter and the aggregator.
derived == <<content, highlighted_content, summary>>

\* The state of a method of ScenarioReviewer that calls the model.
calling == <<caller, attempt, calls, exception>>

\* The session of the app, and the time.
session == <<user_name, backup_data, review_history, clock, backup_log>>

\* The record of an earlier call.
memory == <<earlier, round>>

\* ScenarioReviewTool.process_document.
tool == <<phase, review_points, document>>

\* The ReviewResult of ScenarioReviewer.rewrite_content.
object == <<review_result, returned>>

\* YouTubeTranscriptHelper.
youtube == <<video, languages, candidates, fetched, transcript, max_length, info>>

vars == <<pc, fn, response_text, lines, idx, current_category, reviews,
          suggestions, overall_evaluation, rewritten, changes,
          derived, calling, session, memory, tool, object, youtube>>

----------------------------------------------------------------------------
(* Bounds of the checked inputs. *)

MaxLines == 3       \* lines of a response built from LineSet
MaxBody == 5        \* characters after "- " in an exhaustively built issue line
MaxTokens == 5      \* tokens of a rewrite response
MaxContent == 3     \* characters of a content to highlight
MaxReviews == 2     \* records passed to the highlighter
MaxIssues == 3      \* records passed to the category count
MaxRuns == 11       \* runs of the app that reach create_backup
MaxCalls == 3       \* calls in a sequence of calls of the two parsers
MaxJsonIssues == 2  \* objects of the "issues" list of a JSON response
MaxTranscripts == 3 \* transcripts of a video

----------------------------------------------------------------------------
(* Characters. *)

OPEN == "["
CLOSE == "]"
COLON == ":"
ARROW == ">"
DASH == "-"
SP == " "
NL == "\n"

Whitespace == {SP, NL}

\* The empty str, and None where a str is expected (a group that took no
\* part in a match): a value no str of the inputs equals.
Empty == << >>
None == <<"None">>

\* The empty dict {}.
EmptyDict == [k \in {} |-> 0]

\* No exception, and the exception the n-th generate_content call of a method
\* raises.
NoException == << >>
Error(n) == <<"error", n>>

\* The outcome of a generate_content call: a response, or the exception of
\* the n-th call.
Returned(text) == [ok |-> TRUE, text |-> text]
Raised(n) == [ok |-> FALSE, error |-> Error(n)]

\* No earlier call on record.
NoCall == << >>

\* A name bound to no dict and no object yet.
Unset == [unset |-> TRUE]

----------------------------------------------------------------------------
(* str methods. *)

\* s.startswith(p)
StartsWith(s, p) ==
    /\ Len(p) <= Len(s)
    /\ SubSeq(s, 1, Len(p)) = p

\* s.endswith(p)
EndsWith(s, p) ==
    /\ Len(p) <= Len(s)
    /\ SubSeq(s, Len(s) - Len(p) + 1, Len(s)) = p

\* s.find(p) + 1: the position of the first occurrence of p in s, 0 when absent
Find(s, p) ==
    LET hits == {k \in 1..(Len(s) + 1) :
                    /\ k + Len(p) - 1 <= Len(s)
                    /\ SubSeq(s, k, k + Len(p) - 1) = p}
    IN  IF hits = {} THEN 0 ELSE CHOOSE k \in hits : \A h \in hits : k <= h

\* p in s
Contains(s, p) == Find(s, p) # 0

\* s.split(sep): cut at every occurrence of sep, scanning from the left
RECURSIVE Split(_, _)
Split(s, sep) ==
    LET k == Find(s, sep)
    IN  IF k = 0
        THEN <<s>>
        ELSE <<SubSeq(s, 1, k - 1)>> \o Split(SubSeq(s, k + Len(sep), Len(s)), sep)

\* s.replace(old, new): every occurrence of old, scanning from the left
RECURSIVE Replace(_, _, _)
\* (the empty str occurs before every character and at the end)
Replace(s, old, new) ==
    IF old = Empty
    THEN new \o (IF s = Empty THEN Empty
                 ELSE <<Head(s)>> \o Replace(Tail(s), old, new))
    ELSE
    LET k == Find(s, old)
    IN  IF k = 0
        THEN s
        ELSE SubSeq(s, 1, k - 1) \o new
             \o Replace(SubSeq(s, k + Len(old), Len(s)), old, new)

\* s.strip()
Strip(s) ==
    LET keep == {k \in 1..Len(s) : s[k] \notin Whitespace}
    IN  IF keep = {}
        THEN Empty
        ELSE SubSeq(s, CHOOSE k \in keep : \A h \in keep : k <= h,
                       CHOOSE k \in keep : \A h \in keep : k >= h)

\* sep.join(parts)
RECURSIVE Join(_, _)
Join(parts, sep) ==
    IF Len(parts) = 0 THEN Empty
    ELSE IF Len(parts) = 1 THEN parts[1]
    ELSE parts[1] \o sep \o Join(Tail(parts), sep)

----------------------------------------------------------------------------
(* The regular expressions, matched with re.match (anchored at the start). *)
(* re.match returns None (NoMatch) or a match object with its groups, a    *)
(* group that took no part in the match being None.                        *)

NoMatch == [matched |-> FALSE]

\* The tail  (.+?)(?:->(.+?))?$  on r with the lazy group 2 taking j
\* characters: the optional group is tried first (an arrow and at least one
\* character, its lazy group 3 then growing to the end of the line), and
\* without it the end of the line must follow group 2 at once.
TailMatches(r, j) ==
    \/ /\ j + 2 <= Len(r)
       /\ r[j + 1] = ARROW
    \/ j = Len(r)

\* Faulty variant of IssueMatch: group 1 greedy, r'- (.+):(.+?)(?:->(.+?))?$'.
IssueMatchGreedy(line) ==
    IF ~StartsWith(line, <<DASH, SP>>) THEN NoMatch
    ELSE
    LET x == SubSeq(line, 3, Len(line))
        ks == {k \in 2..Len(x) :
                  /\ x[k] = COLON
                  /\ \E j \in 1..(Len(x) - k) : TailMatches(SubSeq(x, k + 1, Len(x)), j)}
    IN  IF ks = {} THEN NoMatch
        ELSE
        LET k == CHOOSE m \in ks : \A h \in ks : m >= h
            r == SubSeq(x, k + 1, Len(x))
            js == {j \in 1..Len(r) : TailMatches(r, j)}
            j == CHOOSE m \in js : \A h \in js : m <= h
        IN  [matched |-> TRUE,
             g1 |-> SubSeq(x, 1, k - 1),
             g2 |-> SubSeq(r, 1, j),
             g3 |-> IF j = Len(r) THEN None ELSE SubSeq(r, j + 2, Len(r))]

\* r'- (.+?):(.+?)(?:->(.+?))?$' (app.py).  Both lazy groups take the fewest
\* characters with which the rest of the pattern still matches.
IssueMatch(line) ==
    IF ~StartsWith(line, <<DASH, SP>>) THEN NoMatch
    ELSE
    LET x == SubSeq(line, 3, Len(line))
        ks == {k \in 2..Len(x) :
                  /\ x[k] = COLON
                  /\ \E j \in 1..(Len(x) - k) : TailMatches(SubSeq(x, k + 1, Len(x)), j)}
    IN  IF ks = {} THEN NoMatch
        ELSE
        LET k == CHOOSE m \in ks : \A h \in ks : m <= h
            r == SubSeq(x, k + 1, Len(x))
            js == {j \in 1..Len(r) : TailMatches(r, j)}
            j == CHOOSE m \in js : \A h \in js : m <= h
        IN  [matched |-> TRUE,
             g1 |-> SubSeq(x, 1, k - 1),
             g2 |-> SubSeq(r, 1, j),
             g3 |-> IF j = Len(r) THEN None ELSE SubSeq(r, j + 2, Len(r))]

\* issue_pattern r'- (.+?):(.+?)(?:->(.+?))?(?:\n|$)' (reviewer.py), matched
\* against a line of split('\n'): the line holds no line break, so the last
\* alternative is the end of the line.
IssuePatternMatch(line) == IssueMatch(line)

\* category_pattern r'[(.+?)]' (reviewer.py)
CategoryPatternMatch(line) ==
    IF ~StartsWith(line, <<OPEN>>) THEN NoMatch
    ELSE
    LET ks == {k \in 3..Len(line) : line[k] = CLOSE}
    IN  IF ks = {} THEN NoMatch
        ELSE [matched |-> TRUE,
              g1 |-> SubSeq(line, 2, (CHOOSE m \in ks : \A h \in ks : m <= h) - 1)]

\* `if match:` - a match object is truthy, None is not
Truthy(m) == m.matched

\* match.group(3).strip() if match.group(3) else ""
SuggestionOf(m) == IF m.g3 # None /\ m.g3 # Empty THEN Strip(m.g3) ELSE Empty

\* The dict appended for a match under the category cat.
ReviewOf(cat, m) ==
    [category |-> cat,
     location |-> Strip(m.g1),
     issue |-> Strip(m.g2),
     suggestion |-> SuggestionOf(m)]

----------------------------------------------------------------------------
(* The responses the functions are called with. *)

SeqsUpTo(S, n) == UNION {[1..k -> S] : k \in 0..n}

\* Lines of a review response: headers, header look-alikes, issue lines,
\* other lines.
LineSet ==
    { Empty,
      <<OPEN, "a", CLOSE>>,
      <<OPEN, "b", CLOSE>>,
      <<OPEN, CLOSE>>,
      <<OPEN, "a", CLOSE, "b">>,
      <<OPEN, "a", CLOSE, "b", CLOSE>>,
      <<"a">>,
      <<"sou", "hyou">>,
      <<DASH, SP, "a">>,
      <<DASH, SP, "a", COLON, "b">>,
      <<DASH, SP, "b", COLON, "a">>,
      <<DASH, SP, "a", COLON, SP>>,
      <<DASH, SP, "a", COLON, "b", ARROW, "a">> }

\* Every text after "- " of at most MaxBody characters.
BodyChars == {"a", SP, COLON, ARROW}
Bodies == SeqsUpTo(BodyChars, MaxBody)

\* Review responses: up to MaxLines lines of LineSet, and a header followed
\* by an issue line with any body.
ReviewTexts ==
    {Join(ls, <<NL>>) : ls \in SeqsUpTo(LineSet, MaxLines)}
    \cup {<<OPEN, "a", CLOSE, NL, DASH, SP>> \o x : x \in Bodies}

\* The literals of the rewrite response.
REWRITTEN_MARKER == <<OPEN, "ri", "ra", "i", "to", "go", CLOSE>>
CHANGES_MARKER == <<OPEN, "hen", "kou", "ten", CLOSE>>
NO_SUMMARY == <<"henkouten no samari- wa teikyou sarete imasen.">>

\* Rewrite responses: up to MaxTokens of the markers, characters and blanks.
Tokens == {REWRITTEN_MARKER, CHANGES_MARKER, <<"a">>, <<"b">>, <<SP>>}
RewriteTexts == {Join(ts, Empty) : ts \in SeqsUpTo(Tokens, MaxTokens)}

----------------------------------------------------------------------------
(* The state between calls, and the start of a call. *)

Init ==
    /\ pc = "idle"
    /\ fn = "none"
    /\ response_text = Empty
    /\ lines = << >>
    /\ idx = 0
    /\ current_category = Empty
    /\ reviews = << >>
    /\ suggestions = << >>
    /\ overall_evaluation = Empty
    /\ rewritten = Empty
    /\ changes = Empty
    /\ content = Empty
    /\ highlighted_content = Empty
    /\ summary = EmptyDict
    /\ caller = "none"
    /\ attempt = 0
    /\ calls = << >>
    /\ exception = NoException
    /\ user_name = Empty
    /\ backup_data = << >>
    /\ review_history = << >>
    /\ clock = 0
    /\ backup_log = << >>
    /\ earlier = NoCall
    /\ round = 0
    /\ phase = "none"
    /\ review_points = << >>
    /\ document = Unset
    /\ review_result = Unset
    /\ returned = "none"
    /\ video = Unset
    /\ languages = << >>
    /\ candidates = << >>
    /\ fetched = << >>
    /\ transcript = None
    /\ max_length = 0
    /\ info = Unset

\* Faulty variant of EnterLoop: current_category is not assigned at the start
\* of a call and holds what the call before left in it.
EnterLoopStale(f, text) ==
    /\ pc' = "loop"
    /\ fn' = f
    /\ response_text' = text
    /\ lines' = Split(text, <<NL>>)
    /\ idx' = 1
    /\ reviews' = << >>
    /\ suggestions' = << >>
    /\ overall_evaluation' = Empty
    /\ UNCHANGED <<current_category, rewritten, changes>>

\* The locals of the extractors before the loop: reviews = [] (issues = [],
\* suggestions = []), current_category = "", lines = response_text.split('\n').
EnterLoop(f, text) ==
    /\ pc' = "loop"
    /\ fn' = f
    /\ response_text' = text
    /\ lines' = Split(text, <<NL>>)
    /\ idx' = 1
    /\ current_category' = Empty
    /\ reviews' = << >>
    /\ suggestions' = << >>
    /\ overall_evaluation' = Empty
    /\ UNCHANGED <<rewritten, changes>>

InLoop(f) ==
    /\ pc = "loop"
    /\ fn = f
    /\ idx <= Len(lines)

\* The return of a call: its locals are gone.
Return ==
    /\ pc = "done"
    /\ pc' = "idle"
    /\ fn' = "none"
    /\ response_text' = Empty
    /\ lines' = << >>
    /\ idx' = 0
    /\ current_category' = Empty
    /\ reviews' = << >>
    /\ suggestions' = << >>
    /\ overall_evaluation' = Empty
    /\ rewritten' = Empty
    /\ changes' = Empty
    /\ content' = Empty
    /\ highlighted_content' = Empty
    /\ summary' = EmptyDict
    /\ caller' = "none"
    /\ attempt' = 0
    /\ calls' = << >>
    /\ exception' = NoException
    /\ review_result' = Unset
    /\ returned' = "none"
    /\ UNCHANGED <<session, memory, tool, youtube>>

----------------------------------------------------------------------------
(* parse_review_response (app.py) *)

\* line.startswith('[') and line.endswith(']')
IsHeaderLine(line) == StartsWith(line, <<OPEN>>) /\ EndsWith(line, <<CLOSE>>)

\* line[1:-1]
HeaderText(line) == SubSeq(line, 2, Len(line) - 1)

\* line.startswith('- ') and current_category
IsIssueLine(line, cat) == StartsWith(line, <<DASH, SP>>) /\ cat # Empty

\* Faulty variant of MatchFound: the guard `if match:` left out.
MatchGuardDropped(match) == TRUE

\* `if match:` (app.py)
MatchFound(match) == Truthy(match)

\* Faulty variant of AppendReview: the new record put first.
PrependReview(revs, review) == <<review>> \o revs

\* reviews.append({...})
AppendReview(revs, review) == Append(revs, review)

parse_review_response_call ==
    /\ pc = "idle"
    /\ \E text \in ReviewTexts : EnterLoop("parse_review_response", text)
    /\ UNCHANGED <<derived, calling, session, memory, tool, object, youtube>>

parse_review_response_header ==
    /\ InLoop("parse_review_response")
    /\ IsHeaderLine(lines[idx])
    /\ current_category' = HeaderText(lines[idx])
    /\ idx' = idx + 1
    /\ UNCHANGED <<pc, fn, response_text, lines, reviews, suggestions,
                   overall_evaluation, rewritten, changes>>
    /\ UNCHANGED <<derived, calling, session, memory, tool, object, youtube>>

\* match.group(1) raises AttributeError when match is None.
parse_review_response_issue ==
    /\ InLoop("parse_review_response")
    /\ ~IsHeaderLine(lines[idx])
    /\ IsIssueLine(lines[idx], current_category)
    /\ LET match == IssueMatch(lines[idx])
       IN  IF MatchFound(match)
           THEN IF match.matched
                THEN /\ reviews' = AppendReview(reviews, ReviewOf(current_category, match))
                     /\ idx' = idx + 1
                     /\ pc' = pc
                ELSE /\ pc' = "raised"
                     /\ UNCHANGED <<reviews, idx>>
           ELSE /\ idx' = idx + 1
                /\ UNCHANGED <<pc, reviews>>
    /\ UNCHANGED <<fn, response_text, lines, current_category, suggestions,
                   overall_evaluation, rewritten, changes>>
    /\ UNCHANGED <<derived, calling, session, memory, tool, object, youtube>>

parse_review_response_other ==
    /\ InLoop("parse_review_response")
    /\ ~IsHeaderLine(lines[idx])
    /\ ~IsIssueLine(lines[idx], current_category)
    /\ idx' = idx + 1
    /\ UNCHANGED <<pc, fn, response_text, lines, current_category, reviews,
                   suggestions, overall_evaluation, rewritten, changes>>
    /\ UNCHANGED <<derived, calling, session, memory, tool, object, youtube>>

parse_review_response_return ==
    /\ pc = "loop"
    /\ fn = "parse_review_response"
    /\ idx > Len(lines)
    /\ pc' = "done"
    /\ UNCHANGED <<fn, response_text, lines, idx, current_category, reviews,
                   suggestions, overall_evaluation, rewritten, changes>>
    /\ UNCHANGED <<derived, calling, session, memory, tool, object, youtube>>

----------------------------------------------------------------------------
(* ScenarioReviewer._parse_review_response (reviewer.py) *)

\* s.split(sep, n): at most n cuts
RECURSIVE SplitMax(_, _, _)
SplitMax(s, sep, n) ==
    LET k == Find(s, sep)
    IN  IF k = 0 \/ n = 0
        THEN <<s>>
        ELSE <<SubSeq(s, 1, k - 1)>>
             \o SplitMax(SubSeq(s, k + Len(sep), Len(s)), sep, n - 1)

\* The two words that announce the overall evaluation; they share their
\* character "hyou".
ZENTAI_HYOUKA == <<"zen", "tai", "hyou", "ka">>
SOUHYOU == <<"sou", "hyou">>

Max(a, b) == IF a >= b THEN a ELSE b

\* The overall evaluation: from the later of the first occurrences of the two
\* words, the text after the second line break (after the only one, or all of
\* it), stripped.  Find is find + 1, so eval_start > -1 reads k > 0.
OverallEvaluation(text) ==
    IF Contains(text, ZENTAI_HYOUKA) \/ Contains(text, SOUHYOU)
    THEN LET k == Max(Find(text, ZENTAI_HYOUKA), Find(text, SOUHYOU))
             parts == SplitMax(SubSeq(text, k, Len(text)), <<NL>>, 2)
         IN  IF k > 0 THEN Strip(parts[Len(parts)]) ELSE Empty
    ELSE Empty

reviewer_parse_review_response_call ==
    /\ pc = "idle"
    /\ \E text \in ReviewTexts : EnterLoop("_parse_review_response", text)
    /\ UNCHANGED <<derived, calling, session, memory, tool, object, youtube>>

reviewer_parse_review_response_category ==
    /\ InLoop("_parse_review_response")
    /\ LET category_match == CategoryPatternMatch(lines[idx])
       IN  /\ Truthy(category_match)
           /\ current_category' = category_match.g1
    /\ idx' = idx + 1
    /\ UNCHANGED <<pc, fn, response_text, lines, reviews, suggestions,
                   overall_evaluation, rewritten, changes>>
    /\ UNCHANGED <<derived, calling, session, memory, tool, object, youtube>>

reviewer_parse_review_response_issue ==
    /\ InLoop("_parse_review_response")
    /\ ~Truthy(CategoryPatternMatch(lines[idx]))
    /\ LET issue_match == IssuePatternMatch(lines[idx])
       IN  /\ Truthy(issue_match) /\ current_category # Empty
           /\ reviews' = Append(reviews, ReviewOf(current_category, issue_match))
           /\ suggestions' =
                  IF SuggestionOf(issue_match) # Empty
                  THEN Append(suggestions, SuggestionOf(issue_match))
                  ELSE suggestions
    /\ idx' = idx + 1
    /\ UNCHANGED <<pc, fn, response_text, lines, current_category,
                   overall_evaluation, rewritten, changes>>
    /\ UNCHANGED <<derived, calling, session, memory, tool, object, youtube>>

reviewer_parse_review_response_other ==
    /\ InLoop("_parse_review_response")
    /\ ~Truthy(CategoryPatternMatch(lines[idx]))
    /\ ~(Truthy(IssuePatternMatch(lines[idx])) /\ current_category # Empty)
    /\ idx' = idx + 1
    /\ UNCHANGED <<pc, fn, response_text, lines, current_category, reviews,
                   suggestions, overall_evaluation, rewritten, changes>>
    /\ UNCHANGED <<derived, calling, session, memory, tool, object, youtube>>

reviewer_parse_review_response_return ==
    /\ pc = "loop"
    /\ fn = "_parse_review_response"
    /\ idx > Len(lines)
    /\ overall_evaluation' = OverallEvaluation(response_text)
    /\ pc' = "done"
    /\ UNCHANGED <<fn, response_text, lines, idx, current_category, reviews,
                   suggestions, rewritten, changes>>
    /\ UNCHANGED <<derived, calling, session, memory, tool, object, youtube>>

----------------------------------------------------------------------------
(* ScenarioReviewer._parse_rewrite_response (reviewer.py) *)

\* Faulty variant of HasBothMarkers: `or` for `and`.
HasEitherMarker(text) ==
    Contains(text, REWRITTEN_MARKER) \/ Contains(text, CHANGES_MARKER)

\* "[riraitogo]" in response_text and "[henkouten]" in response_text
HasBothMarkers(text) ==
    Contains(text, REWRITTEN_MARKER) /\ Contains(text, CHANGES_MARKER)

\* parts[0].replace("[riraitogo]", "").strip()
RewrittenOf(parts) == Strip(Replace(parts[1], REWRITTEN_MARKER, Empty))

\* parts[1].strip() if len(parts) > 1 else ""
ChangesOf(parts) == IF Len(parts) > 1 THEN Strip(parts[2]) ELSE Empty

parse_rewrite_response_call ==
    /\ pc = "idle"
    /\ \E text \in RewriteTexts :
           /\ pc' = "split"
           /\ fn' = "_parse_rewrite_response"
           /\ response_text' = text
           /\ UNCHANGED <<lines, idx, current_category, reviews, suggestions,
                          overall_evaluation, rewritten, changes>>
    /\ UNCHANGED <<derived, calling, session, memory, tool, object, youtube>>

parse_rewrite_response_markers ==
    /\ pc = "split"
    /\ fn = "_parse_rewrite_response"
    /\ HasBothMarkers(response_text)
    /\ LET parts == Split(response_text, CHANGES_MARKER)
       IN  /\ rewritten' = RewrittenOf(parts)
           /\ changes' = ChangesOf(parts)
    /\ pc' = "done"
    /\ UNCHANGED <<fn, response_text, lines, idx, current_category, reviews,
                   suggestions, overall_evaluation>>
    /\ UNCHANGED <<derived, calling, session, memory, tool, object, youtube>>

parse_rewrite_response_whole ==
    /\ pc = "split"
    /\ fn = "_parse_rewrite_response"
    /\ ~HasBothMarkers(response_text)
    /\ rewritten' = Strip(response_text)
    /\ changes' = NO_SUMMARY
    /\ pc' = "done"
    /\ UNCHANGED <<fn, response_text, lines, idx, current_category, reviews,
                   suggestions, overall_evaluation>>
    /\ UNCHANGED <<derived, calling, session, memory, tool, object, youtube>>

----------------------------------------------------------------------------
(* highlight_issues_in_text (app.py) *)

\* '<span class="highlighted-text">' and '</span>', character by character
SPAN_OPEN ==
    <<"<", "s", "p", "a", "n", " ", "c", "l", "a", "s", "s", "=", "\"",
      "h", "i", "g", "h", "l", "i", "g", "h", "t", "e", "d", "-",
      "t", "e", "x", "t", "\"", "gt">>
SPAN_CLOSE == <<"<", "/", "s", "p", "a", "n", "gt">>

\* f'<span class="highlighted-text">{location}</span>'
Span(location) == SPAN_OPEN \o location \o SPAN_CLOSE

\* Faulty variant of InitialCopy: the working copy starts empty.
EmptyCopy(text) == Empty

\* highlighted_content = content
InitialCopy(text) == text

\* The contents to highlight: every str of at most MaxContent characters "x"
\* and "b".  The markup holds an "x" (in "text") and no "b".
HighlightContents == SeqsUpTo({"x", "b"}, MaxContent)

\* The locations of the records.
Locations == {<<"x">>, <<"b">>, <<"x", "b">>, <<"b", "x">>}

\* A record of parse_review_response with the location loc.
ReviewAt(loc) ==
    [category |-> <<"a">>, location |-> loc, issue |-> <<"b">>,
     suggestion |-> Empty]

\* The lists of records passed: up to MaxReviews records, and the record of
\* the issue line "-  :b", whose location (group 1, one blank, stripped) is "".
HighlightReviews ==
    SeqsUpTo({ReviewAt(loc) : loc \in Locations}, MaxReviews)
    \cup {<<ReviewAt(Empty)>>}

highlight_issues_in_text_call ==
    /\ pc = "idle"
    /\ \E text \in HighlightContents, rs \in HighlightReviews :
           /\ content' = text
           /\ reviews' = rs
           /\ highlighted_content' = InitialCopy(text)
    /\ pc' = "loop"
    /\ fn' = "highlight_issues_in_text"
    /\ idx' = 1
    /\ UNCHANGED <<response_text, lines, current_category, suggestions,
                   overall_evaluation, rewritten, changes, summary>>
    /\ UNCHANGED <<calling, session, memory, tool, object, youtube>>

\* One pass of `for review in reviews`.
highlight_issues_in_text_review ==
    /\ pc = "loop"
    /\ fn = "highlight_issues_in_text"
    /\ idx <= Len(reviews)
    /\ LET location == reviews[idx].location
       IN  highlighted_content' =
               IF Contains(highlighted_content, location)
               THEN Replace(highlighted_content, location, Span(location))
               ELSE highlighted_content
    /\ idx' = idx + 1
    /\ UNCHANGED <<pc, fn, response_text, lines, current_category, reviews,
                   suggestions, overall_evaluation, rewritten, changes,
                   content, summary>>
    /\ UNCHANGED <<calling, session, memory, tool, object, youtube>>

highlight_issues_in_text_return ==
    /\ pc = "loop"
    /\ fn = "highlight_issues_in_text"
    /\ idx > Len(reviews)
    /\ pc' = "done"
    /\ UNCHANGED <<fn, response_text, lines, idx, current_category, reviews,
                   suggestions, overall_evaluation, rewritten, changes>>
    /\ UNCHANGED <<derived, calling, session, memory, tool, object, youtube>>

----------------------------------------------------------------------------
(* ScenarioReviewer.extract_issues_summary (reviewer.py) and the count of  *)
(* the records per category in the run action (app.py)                     *)

\* The default category of extract_issues_summary.
SONOTA == <<"so", "no", "ta">>

\* d.get(key, default)
Get(d, key, default) == IF key \in DOMAIN d THEN d[key] ELSE default

\* issue.get("category", SONOTA)
CategoryOrDefault(issue) ==
    IF "category" \in DOMAIN issue THEN issue.category ELSE SONOTA

\* Faulty variant of CountUp: summary[category] = 1.
CountOnce(d, category) ==
    [key \in DOMAIN d \cup {category} |-> IF key = category THEN 1 ELSE d[key]]

\* summary[category] = summary.get(category, 0) + 1
CountUp(d, category) ==
    [key \in DOMAIN d \cup {category} |->
        IF key = category THEN Get(d, category, 0) + 1 ELSE d[key]]

\* The records counted: up to MaxIssues records of the extractors, a record
\* taking its category from a header.
Categories == {<<"a">>, <<"b">>, SONOTA}

IssueAt(cat) ==
    [category |-> cat, location |-> <<"a">>, issue |-> <<"b">>,
     suggestion |-> Empty]

IssueSeqs == SeqsUpTo({IssueAt(cat) : cat \in Categories}, MaxIssues)

\* summary = {} (category_counts = {}) before the loop over the records.
EnterCount(f, issues) ==
    /\ pc' = "loop"
    /\ fn' = f
    /\ reviews' = issues
    /\ idx' = 1
    /\ summary' = EmptyDict
    /\ UNCHANGED <<response_text, lines, current_category, suggestions,
                   overall_evaluation, rewritten, changes, content,
                   highlighted_content>>
    /\ UNCHANGED <<calling, session, memory, tool, object, youtube>>

Counting(f) ==
    /\ pc = "loop"
    /\ fn = f
    /\ idx <= Len(reviews)

extract_issues_summary_call ==
    /\ pc = "idle"
    /\ \E issues \in IssueSeqs : EnterCount("extract_issues_summary", issues)

extract_issues_summary_issue ==
    /\ Counting("extract_issues_summary")
    /\ LET category == CategoryOrDefault(reviews[idx])
       IN  summary' = CountUp(summary, category)
    /\ idx' = idx + 1
    /\ UNCHANGED <<pc, fn, response_text, lines, current_category, reviews,
                   suggestions, overall_evaluation, rewritten, changes,
                   content, highlighted_content>>
    /\ UNCHANGED <<calling, session, memory, tool, object, youtube>>

extract_issues_summary_return ==
    /\ pc = "loop"
    /\ fn = "extract_issues_summary"
    /\ idx > Len(reviews)
    /\ pc' = "done"
    /\ UNCHANGED <<fn, response_text, lines, idx, current_category, reviews,
                   suggestions, overall_evaluation, rewritten, changes>>
    /\ UNCHANGED <<derived, calling, session, memory, tool, object, youtube>>

\* app.py 464-468, entered with the records of parse_review_response.
category_counts_begin ==
    /\ pc = "idle"
    /\ \E issues \in IssueSeqs : EnterCount("category_counts", issues)

category_counts_review ==
    /\ Counting("category_counts")
    /\ LET cat == reviews[idx].category
       IN  summary' = CountUp(summary, cat)
    /\ idx' = idx + 1
    /\ UNCHANGED <<pc, fn, response_text, lines, current_category, reviews,
                   suggestions, overall_evaluation, rewritten, changes,
                   content, highlighted_content>>
    /\ UNCHANGED <<calling, session, memory, tool, object, youtube>>

category_counts_end ==
    /\ pc = "loop"
    /\ fn = "category_counts"
    /\ idx > Len(reviews)
    /\ pc' = "done"
    /\ UNCHANGED <<fn, response_text, lines, idx, current_category, reviews,
                   suggestions, overall_evaluation, rewritten, changes>>
    /\ UNCHANGED <<derived, calling, session, memory, tool, object, youtube>>

----------------------------------------------------------------------------
(* ScenarioReviewTool._parse_text_response (scenario_review_tool.py) *)

\* The ReviewPoint of the line "- " + x, x holding a colon: x is cut at its
\* first colon and the rest at its first arrow, if it has one.
ReviewPointOf(cat, x) ==
    LET parts == SplitMax(x, <<COLON>>, 1)
        location == parts[1]
        issue_and_suggestion == parts[2]
        cut == SplitMax(issue_and_suggestion, <<ARROW>>, 1)
    IN  [category |-> cat,
         location |-> Strip(location),
         issue |-> Strip(cut[1]),
         suggestion |-> IF Contains(issue_and_suggestion, <<ARROW>>)
                        THEN Strip(cut[2]) ELSE Empty]

parse_text_response_call ==
    /\ pc = "idle"
    /\ \E text \in ReviewTexts : EnterLoop("_parse_text_response", text)
    /\ UNCHANGED <<derived, calling, session, memory, tool, object, youtube>>

parse_text_response_header ==
    /\ InLoop("_parse_text_response")
    /\ IsHeaderLine(lines[idx])
    /\ current_category' = HeaderText(lines[idx])
    /\ idx' = idx + 1
    /\ UNCHANGED <<pc, fn, response_text, lines, reviews, suggestions,
                   overall_evaluation, rewritten, changes>>
    /\ UNCHANGED <<derived, calling, session, memory, tool, object, youtube>>

\* elif line.startswith('- '): a ReviewPoint when line[2:] holds a colon.
parse_text_response_issue ==
    /\ InLoop("_parse_text_response")
    /\ ~IsHeaderLine(lines[idx])
    /\ StartsWith(lines[idx], <<DASH, SP>>)
    /\ LET x == SubSeq(lines[idx], 3, Len(lines[idx]))
           parts == SplitMax(x, <<COLON>>, 1)
       IN  reviews' = IF Len(parts) = 2
                      THEN Append(reviews, ReviewPointOf(current_category, x))
                      ELSE reviews
    /\ idx' = idx + 1
    /\ UNCHANGED <<pc, fn, response_text, lines, current_category,
                   suggestions, overall_evaluation, rewritten, changes>>
    /\ UNCHANGED <<derived, calling, session, memory, tool, object, youtube>>

parse_text_response_other ==
    /\ InLoop("_parse_text_response")
    /\ ~IsHeaderLine(lines[idx])
    /\ ~StartsWith(lines[idx], <<DASH, SP>>)
    /\ idx' = idx + 1
    /\ UNCHANGED <<pc, fn, response_text, lines, current_category, reviews,
                   suggestions, overall_evaluation, rewritten, changes>>
    /\ UNCHANGED <<derived, calling, session, memory, tool, object, youtube>>

parse_text_response_return ==
    /\ pc = "loop"
    /\ fn = "_parse_text_response"
    /\ idx > Len(lines)
    /\ pc' = "done"
    /\ UNCHANGED <<fn, response_text, lines, idx, current_category, reviews,
                   suggestions, overall_evaluation, rewritten, changes>>
    /\ UNCHANGED <<derived, calling, session, memory, tool, object, youtube>>

----------------------------------------------------------------------------
(* The specification. *)

\* The steps of a call that has started.
Step ==
    \/ parse_review_response_header
    \/ parse_review_response_issue
    \/ parse_review_response_other
    \/ parse_review_response_return
    \/ reviewer_parse_review_response_category
    \/ reviewer_parse_review_response_issue
    \/ reviewer_parse_review_response_other
    \/ reviewer_parse_review_response_return
    \/ parse_rewrite_response_markers
    \/ parse_rewrite_response_whole
    \/ highlight_issues_in_text_review
    \/ highlight_issues_in_text_return
    \/ extract_issues_summary_issue
    \/ extract_issues_summary_return
    \/ category_counts_review
    \/ category_counts_end
    \/ parse_text_response_header
    \/ parse_text_response_issue
    \/ parse_text_response_other
    \/ parse_text_response_return

Next ==
    \/ parse_review_response_call
    \/ reviewer_parse_review_response_call
    \/ parse_rewrite_response_call
    \/ highlight_issues_in_text_call
    \/ extract_issues_summary_call
    \/ category_counts_begin
    \/ parse_text_response_call
    \/ Step
    \/ Return

Spec == Init /\ [][Next]_vars

----------------------------------------------------------------------------
(* The session of the app (app.py): the operator's name, the run action    *)
(* with create_backup, the review history.                                 *)
(* A reading of datetime.now() is the number of readings before it, so     *)
(* two readings differ.  An entry of the history is modelled by its user,  *)
(* char_count and result.                                                  *)

\* The backups kept (app.py 140-141).
BACKUP_LIMIT == 10

\* Unused by the code: config.py MAX_HISTORY_RECORDS.
MAX_HISTORY_RECORDS == 1000

\* What the operator types as name, as content; what the model answers.
UserNames == {Empty, <<"u">>}
RunContents == {<<"a">>}
RunResponses == {<<OPEN, "a", CLOSE, NL, DASH, SP, "a", COLON, "b">>}

\* Faulty variant of KeepLatest: backup_data[:10].
KeepOldest(buffer) ==
    IF Len(buffer) > BACKUP_LIMIT THEN SubSeq(buffer, 1, BACKUP_LIMIT) ELSE buffer

\* if len(backup_data) > 10: backup_data = backup_data[-10:]
KeepLatest(buffer) ==
    IF Len(buffer) > BACKUP_LIMIT
    THEN SubSeq(buffer, Len(buffer) - BACKUP_LIMIT + 1, Len(buffer))
    ELSE buffer

\* backup_entry of create_backup(data)
BackupEntry(data) == [timestamp |-> clock, data |-> data]

\* Faulty variant of create_backup: nothing is kept.
create_backup_skipped(data) ==
    UNCHANGED <<backup_data, backup_log, clock>>

\* create_backup(data)
create_backup(data) ==
    /\ backup_data' = KeepLatest(Append(backup_data, BackupEntry(data)))
    /\ backup_log' = Append(backup_log, BackupEntry(data))
    /\ clock' = clock + 1

\* Faulty variant of NameGiven: the name is not looked at.
NameIgnored(name) == TRUE

\* The negation of `not st.session_state.user_name`.
NameGiven(name) == name # Empty

\* The pages a run ends on: the warning, the error message, the results.
Pages == {"warning", "error", "success"}

\* st.session_state.user_name = st.text_input(...)
user_name_input ==
    /\ pc = "idle"
    /\ \E name \in UserNames : user_name' = name
    /\ UNCHANGED <<pc, fn, response_text, lines, idx, current_category,
                   reviews, suggestions, overall_evaluation, rewritten,
                   changes, derived, calling, memory, tool, object, youtube>>
    /\ UNCHANGED <<backup_data, review_history, clock, backup_log>>

\* The run button, enabled when api_key and content are not empty: the
\* warning, or create_backup and on to the call of the model.
run_click ==
    /\ pc = "idle"
    /\ \E text \in RunContents :
           IF NameGiven(user_name)
           THEN /\ create_backup([content |-> text])
                /\ content' = text
                /\ pc' = "generate"
                /\ fn' = "run"
                /\ caller' = "run"
           ELSE /\ pc' = "warning"
                /\ UNCHANGED <<fn, caller, content, backup_data, backup_log,
                               clock>>
    /\ UNCHANGED <<response_text, lines, idx, current_category, reviews,
                   suggestions, overall_evaluation, rewritten, changes,
                   highlighted_content, summary, attempt, calls, exception,
                   user_name, review_history, memory, tool, object, youtube>>

\* model.generate_content(prompt) returns: the result is shown and the entry
\* appended to the history.
run_generate_returns ==
    /\ pc = "generate"
    /\ fn = "run"
    /\ \E text \in RunResponses :
           /\ response_text' = text
           /\ calls' = Append(calls, Returned(text))
           /\ review_history' =
                  Append(review_history,
                         [user |-> user_name, char_count |-> Len(content),
                          result |-> text])
    /\ pc' = "success"
    /\ UNCHANGED <<fn, lines, idx, current_category, reviews, suggestions,
                   overall_evaluation, rewritten, changes, derived, caller,
                   attempt, exception, user_name, backup_data, clock,
                   backup_log, memory, tool, object, youtube>>

\* model.generate_content(prompt) raises: `except Exception as e` shows the
\* error.
run_generate_raises ==
    /\ pc = "generate"
    /\ fn = "run"
    /\ calls' = Append(calls, Raised(Len(calls) + 1))
    /\ pc' = "error"
    /\ UNCHANGED <<fn, response_text, lines, idx, current_category, reviews,
                   suggestions, overall_evaluation, rewritten, changes,
                   derived, caller, attempt, exception, session, memory, tool, object, youtube>>

\* model.generate_content(prompt) returns and a statement between the call
\* and the append to the history raises (response.text of a blocked
\* response, a call that shows the result): `except Exception as e` shows
\* the error.
run_render_raises ==
    /\ pc = "generate"
    /\ fn = "run"
    /\ \E text \in RunResponses :
           /\ response_text' = text
           /\ calls' = Append(calls, Returned(text))
    /\ pc' = "error"
    /\ UNCHANGED <<fn, lines, idx, current_category, reviews, suggestions,
                   overall_evaluation, rewritten, changes, derived, caller,
                   attempt, exception, session, memory, tool, object, youtube>>

\* The script has run to its end; the page waits for the operator.
run_end ==
    /\ pc \in Pages
    /\ pc' = "idle"
    /\ fn' = "none"
    /\ caller' = "none"
    /\ response_text' = Empty
    /\ content' = Empty
    /\ calls' = << >>
    /\ UNCHANGED <<lines, idx, current_category, reviews, suggestions,
                   overall_evaluation, rewritten, changes,
                   highlighted_content, summary, attempt, exception,
                   session, memory, tool, object, youtube>>

\* The clear button of the statistics tab, shown when there is a history.
history_clear ==
    /\ pc = "idle"
    /\ review_history # << >>
    /\ review_history' = << >>
    /\ UNCHANGED <<pc, fn, response_text, lines, idx, current_category,
                   reviews, suggestions, overall_evaluation, rewritten,
                   changes, derived, calling, memory, tool, object, youtube>>
    /\ UNCHANGED <<user_name, backup_data, clock, backup_log>>

\* The app, the runs that reach create_backup limited to MaxRuns.
AppNext ==
    \/ user_name_input
    \/ (Len(backup_log) < MaxRuns \/ ~NameGiven(user_name)) /\ run_click
    \/ run_generate_returns
    \/ run_generate_raises
    \/ run_render_raises
    \/ run_end
    \/ history_clear

SpecApp == Init /\ [][AppNext]_vars

\* The app with a model that never fails and a history never cleared, up to
\* a history of MAX_HISTORY_RECORDS + 1 entries.
HistoryNext ==
    \/ user_name_input
    \/ Len(review_history) <= MAX_HISTORY_RECORDS /\ run_click
    \/ run_generate_returns
    \/ run_end

SpecHistory == Init /\ [][HistoryNext]_vars

----------------------------------------------------------------------------
(* ScenarioReviewer.review_content and ScenarioReviewer.rewrite_content    *)
(* (reviewer.py): the calls of self.model.generate_content, each of which  *)
(* returns a response or raises.                                           *)

\* config.py
RETRY_ATTEMPTS == 3

\* Faulty variant of ShouldRetry: attempt < RETRY_ATTEMPTS.
RetryAlways(n) == n < RETRY_ATTEMPTS

\* if attempt < RETRY_ATTEMPTS - 1
ShouldRetry(n) == n < RETRY_ATTEMPTS - 1

\* The issues of the review_result passed to rewrite_content.
RewriteIssues == {<< >>, <<IssueAt(<<"a">>)>>}

\* prompt = ...; for attempt in range(RETRY_ATTEMPTS): the first pass
review_content_call ==
    /\ pc = "idle"
    /\ pc' = "generate"
    /\ fn' = "review_content"
    /\ caller' = "review_content"
    /\ attempt' = 0
    /\ calls' = << >>
    /\ UNCHANGED <<response_text, lines, idx, current_category, reviews,
                   suggestions, overall_evaluation, rewritten, changes,
                   derived, exception, session, memory, tool, object, youtube>>

\* generate_content returns: return self._parse_review_response(response.text)
review_content_generate_returns ==
    /\ pc = "generate"
    /\ fn = "review_content"
    /\ \E text \in ReviewTexts :
           /\ calls' = Append(calls, Returned(text))
           /\ EnterLoop("_parse_review_response", text)
    /\ UNCHANGED <<derived, caller, attempt, exception, session, memory, tool, object, youtube>>

\* generate_content raises: sleep and the next pass of the loop, or raise e.
\* A loop that ran out of passes would return None.
review_content_generate_raises ==
    /\ pc = "generate"
    /\ fn = "review_content"
    /\ calls' = Append(calls, Raised(Len(calls) + 1))
    /\ IF ShouldRetry(attempt)
       THEN /\ attempt' = attempt + 1
            /\ pc' = IF attempt + 1 < RETRY_ATTEMPTS THEN "generate" ELSE "done"
            /\ UNCHANGED exception
       ELSE /\ pc' = "raised"
            /\ exception' = Error(Len(calls) + 1)
            /\ UNCHANGED attempt
    /\ UNCHANGED <<fn, response_text, lines, idx, current_category, reviews,
                   suggestions, overall_evaluation, rewritten, changes,
                   derived, caller, session, memory, tool, object, youtube>>

\* rewrite_content(content, review_result)
\* The ReviewResult objects passed to rewrite_content: one of a review
\* without issues, one with an issue that has been rewritten before.
ReviewResults ==
    {[phase |-> "FINAL_REWRITE",
      issues |-> issues,
      suggestions |-> IF issues = << >> THEN << >> ELSE <<<<"a">>>>,
      overall_evaluation |-> IF issues = << >> THEN Empty ELSE <<"b">>,
      rewritten_content |-> IF issues = << >> THEN None ELSE <<"b">>,
      changes_summary |-> IF issues = << >> THEN None ELSE <<"a">>] :
         issues \in RewriteIssues}

\* Faulty variant of Assigned: a new ReviewResult with the two fields.
Rebuilt(result, rewritten_content, changes_summary) ==
    [phase |-> result.phase,
     issues |-> << >>,
     suggestions |-> << >>,
     overall_evaluation |-> Empty,
     rewritten_content |-> rewritten_content,
     changes_summary |-> changes_summary]

\* review_result.rewritten_content = rewritten_content
\* review_result.changes_summary = changes_summary
Assigned(result, rewritten_content, changes_summary) ==
    [result EXCEPT !.rewritten_content = rewritten_content,
                   !.changes_summary = changes_summary]

rewrite_content_call ==
    /\ pc = "idle"
    /\ \E result \in ReviewResults :
           /\ review_result' = result
           /\ reviews' = result.issues
    /\ returned' = "none"
    /\ pc' = "generate"
    /\ fn' = "rewrite_content"
    /\ caller' = "rewrite_content"
    /\ calls' = << >>
    /\ UNCHANGED <<response_text, lines, idx, current_category, suggestions,
                   overall_evaluation, rewritten, changes, derived, attempt,
                   exception, session, memory, tool, youtube>>

\* generate_content returns: self._parse_rewrite_response(response.text)
rewrite_content_generate_returns ==
    /\ pc = "generate"
    /\ fn = "rewrite_content"
    /\ \E text \in RewriteTexts :
           /\ calls' = Append(calls, Returned(text))
           /\ response_text' = text
    /\ pc' = "split"
    /\ fn' = "_parse_rewrite_response"
    /\ UNCHANGED <<lines, idx, current_category, reviews, suggestions,
                   overall_evaluation, rewritten, changes, derived, caller,
                   attempt, exception, session, memory, tool, object, youtube>>

\* generate_content raises: nothing catches the exception.
rewrite_content_generate_raises ==
    /\ pc = "generate"
    /\ fn = "rewrite_content"
    /\ calls' = Append(calls, Raised(Len(calls) + 1))
    /\ exception' = Error(Len(calls) + 1)
    /\ pc' = "raised"
    /\ UNCHANGED <<fn, response_text, lines, idx, current_category, reviews,
                   suggestions, overall_evaluation, rewritten, changes,
                   derived, caller, attempt, session, memory, tool, object, youtube>>

\* _parse_rewrite_response has returned: the two fields are assigned and
\* review_result is returned.
rewrite_content_return ==
    /\ pc = "done"
    /\ caller = "rewrite_content"
    /\ fn = "_parse_rewrite_response"
    /\ review_result' = Assigned(review_result, rewritten, changes)
    /\ returned' = "review_result"
    /\ fn' = "rewrite_content"
    /\ UNCHANGED <<pc, response_text, lines, idx, current_category, reviews,
                   suggestions, overall_evaluation, rewritten, changes,
                   derived, calling, session, memory, tool, youtube>>

ReviewerNext ==
    \/ review_content_call
    \/ review_content_generate_returns
    \/ review_content_generate_raises
    \/ reviewer_parse_review_response_category
    \/ reviewer_parse_review_response_issue
    \/ reviewer_parse_review_response_other
    \/ reviewer_parse_review_response_return
    \/ rewrite_content_call
    \/ rewrite_content_generate_returns
    \/ rewrite_content_generate_raises
    \/ parse_rewrite_response_markers
    \/ parse_rewrite_response_whole
    \/ rewrite_content_return
    \/ (caller = "rewrite_content" => fn = "rewrite_content") /\ Return

SpecReviewer == Init /\ [][ReviewerNext]_vars

----------------------------------------------------------------------------
(* Sequences of calls of parse_review_response (app.py) and of
   _parse_rewrite_response (reviewer.py): up to MaxCalls calls, one after the
   other, on any of a few texts. The caller may keep the text and the result
   of one call. Between the calls the variables of the finished calls keep
   their last values: a call that read one of them before assigning it would
   return something that depends on the calls before it. *)

\* Review responses of the sequences: records under a header, an issue line
\* before any header, a header alone, no line of either kind.
SequenceReviewTexts ==
    { <<OPEN, "a", CLOSE, NL, DASH, SP, "a", COLON, "b">>,
      <<DASH, SP, "a", COLON, "b">>,
      <<OPEN, "b", CLOSE>>,
      <<"a">> }

\* Rewrite responses of the sequences: both markers, none, one.
SequenceRewriteTexts ==
    { REWRITTEN_MARKER \o <<"a">> \o CHANGES_MARKER \o <<"b">>,
      REWRITTEN_MARKER \o <<"b">> \o CHANGES_MARKER,
      <<"a">>,
      CHANGES_MARKER \o <<"b">> }

\* return reviews / return rewritten, changes
Result(f) ==
    IF f = "_parse_rewrite_response" THEN <<rewritten, changes>> ELSE reviews

\* What the caller keeps of a call that has returned.
CallOf(f, text, result) == [fn |-> f, text |-> text, result |-> result]

sequence_parse_review_response ==
    /\ pc = "idle"
    /\ round < MaxCalls
    /\ \E text \in SequenceReviewTexts : EnterLoop("parse_review_response", text)
    /\ round' = round + 1
    /\ UNCHANGED <<earlier, derived, calling, session, tool, object, youtube>>

sequence_parse_rewrite_response ==
    /\ pc = "idle"
    /\ round < MaxCalls
    /\ \E text \in SequenceRewriteTexts :
           /\ pc' = "split"
           /\ fn' = "_parse_rewrite_response"
           /\ response_text' = text
    /\ round' = round + 1
    /\ UNCHANGED <<lines, idx, current_category, reviews, suggestions,
                   overall_evaluation, rewritten, changes>>
    /\ UNCHANGED <<earlier, derived, calling, session, tool, object, youtube>>

\* The call returns; the caller keeps its result or lets it go.
sequence_return ==
    /\ pc = "done"
    /\ pc' = "idle"
    /\ \/ /\ earlier = NoCall
          /\ earlier' = CallOf(fn, response_text, Result(fn))
       \/ UNCHANGED earlier
    /\ UNCHANGED <<fn, response_text, lines, idx, current_category, reviews,
                   suggestions, overall_evaluation, rewritten, changes>>
    /\ UNCHANGED <<round, derived, calling, session, tool, object, youtube>>

SequenceNext ==
    \/ sequence_parse_review_response
    \/ parse_review_response_header
    \/ parse_review_response_issue
    \/ parse_review_response_other
    \/ parse_review_response_return
    \/ sequence_parse_rewrite_response
    \/ parse_rewrite_response_markers
    \/ parse_rewrite_response_whole
    \/ sequence_return

SpecSequence == Init /\ [][SequenceNext]_vars

----------------------------------------------------------------------------
(* ScenarioReviewTool (scenario_review_tool.py): review_content,           *)
(* rewrite_content, process_document.                                      *)
(* A JSON text is a sequence of lexemes: "{" "}" "," as they are, "lb" and *)
(* "rb" for the ASCII square brackets, "jc" for the ASCII colon, a string  *)
(* literal with its quotes as one symbol, the number "1"; blanks and line  *)
(* breaks may stand between the lexemes. A JSON value is a record with its *)
(* type: a str with its literal s, a num, an arr with its items, an obj    *)
(* with its members, the pairs of key and value in the order of the text.  *)

\* The string literals of the responses.
StringLexemes ==
    {"'issues'", "'category'", "'location'", "'issue'", "'suggestion'",
     "'extra'", "'a'", "''"}

\* The fields of ReviewPoint.
ReviewPointFields == {"'category'", "'location'", "'issue'", "'suggestion'"}

\* json.loads(text): [ok |-> TRUE, val |-> the value] or, for JSONDecodeError,
\* [ok |-> FALSE].
json_loads(text) ==
    LET Fail == [ok |-> FALSE]
        Got(v, n) == [ok |-> TRUE, val |-> v, next |-> n]
        \* the first position from i on that holds no whitespace
        Skip(i) ==
            IF \E j \in i..Len(text) : text[j] \notin Whitespace
            THEN CHOOSE j \in i..Len(text) :
                     /\ text[j] \notin Whitespace
                     /\ \A k \in i..(j - 1) : text[k] \in Whitespace
            ELSE Len(text) + 1
        At(i, lexeme) == i <= Len(text) /\ text[i] = lexeme
        RECURSIVE Value(_), Members(_, _), Elements(_, _)
        Value(i0) ==
            LET i == Skip(i0)
            IN  IF i > Len(text) THEN Fail
                ELSE IF text[i] \in StringLexemes
                THEN Got([type |-> "str", s |-> text[i]], i + 1)
                ELSE IF text[i] = "1"
                THEN Got([type |-> "num"], i + 1)
                ELSE IF text[i] = "{"
                THEN IF At(Skip(i + 1), "}")
                     THEN Got([type |-> "obj", members |-> << >>], Skip(i + 1) + 1)
                     ELSE Members(Skip(i + 1), << >>)
                ELSE IF text[i] = "lb"
                THEN IF At(Skip(i + 1), "rb")
                     THEN Got([type |-> "arr", items |-> << >>], Skip(i + 1) + 1)
                     ELSE Elements(Skip(i + 1), << >>)
                ELSE Fail
        Members(i, acc) ==
            IF i > Len(text) \/ text[i] \notin StringLexemes THEN Fail
            ELSE IF ~At(Skip(i + 1), "jc") THEN Fail
            ELSE LET v == Value(Skip(i + 1) + 1)
                 IN  IF ~v.ok THEN Fail
                     ELSE LET e == Skip(v.next)
                              more == Append(acc, <<text[i], v.val>>)
                          IN  IF At(e, "}")
                              THEN Got([type |-> "obj", members |-> more], e + 1)
                              ELSE IF At(e, ",")
                              THEN Members(Skip(e + 1), more)
                              ELSE Fail
        Elements(i, acc) ==
            LET v == Value(i)
            IN  IF ~v.ok THEN Fail
                ELSE LET e == Skip(v.next)
                         more == Append(acc, v.val)
                     IN  IF At(e, "rb")
                         THEN Got([type |-> "arr", items |-> more], e + 1)
                         ELSE IF At(e, ",")
                         THEN Elements(Skip(e + 1), more)
                         ELSE Fail
        r == Value(1)
    IN  IF r.ok /\ Skip(r.next) > Len(text)
        THEN [ok |-> TRUE, val |-> r.val]
        ELSE Fail

\* Faulty variant of AcceptsKeywords: unexpected keywords are let through.
AcceptsMoreKeywords(keys) == ReviewPointFields \subseteq keys

\* ReviewPoint(**issue) takes the keywords category, location, issue and
\* suggestion, all of them and no other (TypeError).
AcceptsKeywords(keys) == keys = ReviewPointFields

\* The try block of review_content on the response text:
\* [ok |-> TRUE, points |-> the list] or, when a statement raises,
\* [ok |-> FALSE].
TryJson(text) ==
    LET Fail == [ok |-> FALSE]
        Keys(v) == {v.members[k][1] : k \in 1..Len(v.members)}
        \* d[key] of a dict: the value of the last member with the key
        Item(v, key) ==
            LET k == CHOOSE k \in 1..Len(v.members) :
                         /\ v.members[k][1] = key
                         /\ \A h \in (k + 1)..Len(v.members) :
                                v.members[h][1] # key
            IN  v.members[k][2]
        \* issue can be unpacked with **: a dict (its keys are str)
        Point(issue) ==
            [category |-> Item(issue, "'category'"),
             location |-> Item(issue, "'location'"),
             issue |-> Item(issue, "'issue'"),
             suggestion |-> Item(issue, "'suggestion'")]
        r == json_loads(text)
    IN  IF ~r.ok THEN Fail
        ELSE IF r.val.type # "obj" THEN Fail
        ELSE IF "'issues'" \notin Keys(r.val) THEN Fail
        ELSE LET issues == Item(r.val, "'issues'")
             IN  IF issues.type = "arr"
                 THEN IF \A k \in 1..Len(issues.items) :
                             /\ issues.items[k].type = "obj"
                             /\ AcceptsKeywords(Keys(issues.items[k]))
                      THEN [ok |-> TRUE,
                            points |-> [k \in 1..Len(issues.items) |->
                                           Point(issues.items[k])]]
                      ELSE Fail
                 \* the loop over a dict takes its keys, over a str its
                 \* characters: none of them can be unpacked
                 ELSE IF issues.type = "obj"
                 THEN IF issues.members = << >>
                      THEN [ok |-> TRUE, points |-> << >>] ELSE Fail
                 ELSE IF issues.type = "str"
                 THEN IF issues.s = "''"
                      THEN [ok |-> TRUE, points |-> << >>] ELSE Fail
                 ELSE Fail

\* The responses of the model to the review prompt: JSON of the shape asked
\* for with up to MaxJsonIssues issue objects, an object among them with a
\* field missing, one more, or a number for a str; JSON of other shapes; such
\* texts cut short, laid out on lines, or followed by text; responses in the
\* text format.
ToolTexts ==
    LET Str(x) == [type |-> "str", s |-> x]
        Arr(items) == [type |-> "arr", items |-> items]
        Obj(members) == [type |-> "obj", members |-> members]
        A == Str("'a'")
        Four == <<<<"'category'", A>>, <<"'location'", A>>, <<"'issue'", A>>,
                  <<"'suggestion'", A>>>>
        Full == Obj(Four)
        IssueObjects ==
            { Full,
              Obj(SubSeq(Four, 1, 3)),
              Obj(Append(Four, <<"'extra'", A>>)),
              Obj(<<Four[1], Four[2], Four[3], <<"'suggestion'", [type |-> "num"]>>>>) }
        Issues(x) == Obj(<<<<"'issues'", x>>>>)
        Shaped == {Issues(Arr(a)) : a \in SeqsUpTo(IssueObjects, MaxJsonIssues)}
        Others ==
            { Issues(Str("''")), Issues(A), Issues(Obj(<< >>)),
              Issues([type |-> "num"]), Issues(Obj(<<Four[1]>>)),
              Issues(Arr(<<A>>)), Issues(Arr(<<Arr(<< >>)>>)),
              Obj(<<<<"'extra'", Arr(<<Full>>)>>>>),
              Obj(<<<<"'issues'", Arr(<<Full>>)>>, <<"'extra'", A>>>>),
              Arr(<<Full>>), A }
        RECURSIVE dumps(_)
        dumps(v) ==
            IF v.type = "str" THEN <<v.s>>
            ELSE IF v.type = "num" THEN <<"1">>
            ELSE IF v.type = "arr"
            THEN <<"lb">>
                 \o Join([k \in 1..Len(v.items) |-> dumps(v.items[k])], <<",">>)
                 \o <<"rb">>
            ELSE <<"{">>
                 \o Join([k \in 1..Len(v.members) |->
                              <<v.members[k][1], "jc">> \o dumps(v.members[k][2])],
                         <<",">>)
                 \o <<"}">>
        Json == {dumps(v) : v \in Shaped \cup Others}
        OnLines(t) == Join([k \in 1..Len(t) |-> <<t[k]>>], <<NL, SP>>)
    IN  Json
        \cup {SubSeq(t, 1, Len(t) - 1) : t \in Json}
        \cup {OnLines(dumps(v)) : v \in Others}
        \cup {dumps(v) \o <<NL, DASH, SP, "a", COLON, "b">> : v \in Others}
        \cup { <<OPEN, "a", CLOSE, NL, DASH, SP, "a", COLON, "b">>,
               <<DASH, SP, "a", COLON, "b", ARROW, "a">>,
               <<"a">>,
               Empty }

\* The members of WorkPhase.
WorkPhase ==
    {"PLOT_REVIEW", "PLOT_REVISION_REVIEW", "SCENARIO_REVIEW",
     "SCENARIO_REVISION_REVIEW", "FINAL_REWRITE"}

\* Faulty variant of IsFinalRewrite: every phase is rewritten.
IsAnyPhase(p) == TRUE

\* phase == WorkPhase.FINAL_REWRITE
IsFinalRewrite(p) == p = "FINAL_REWRITE"

\* A call of generate_content by a method of the tool, as it went.
ToolCall(method, points, text) ==
    [ok |-> TRUE, method |-> method, points |-> points, text |-> text]

\* process_document(content, phase): both branches start with review_content.
process_document_call ==
    /\ pc = "idle"
    /\ \E p \in WorkPhase : phase' = p
    /\ \E text \in RunContents : content' = text
    /\ pc' = "generate"
    /\ fn' = "review_content"
    /\ caller' = "process_document"
    /\ UNCHANGED <<response_text, lines, idx, current_category, reviews,
                   suggestions, overall_evaluation, rewritten, changes,
                   highlighted_content, summary, attempt, calls, exception,
                   review_points, document, session, memory, object, youtube>>

\* review_content: generate_content returns.
tool_review_content_returns ==
    /\ pc = "generate"
    /\ fn = "review_content"
    /\ caller = "process_document"
    /\ \E text \in ToolTexts :
           /\ response_text' = text
           /\ calls' = Append(calls, ToolCall("review_content", << >>, text))
    /\ pc' = "json"
    /\ UNCHANGED <<fn, lines, idx, current_category, reviews, suggestions,
                   overall_evaluation, rewritten, changes, derived, caller,
                   attempt, exception, session, memory, tool, object, youtube>>

\* generate_content raises in review_content or in rewrite_content: neither
\* method nor process_document catches it.
tool_generate_raises ==
    /\ pc = "generate"
    /\ caller = "process_document"
    /\ calls' = Append(calls, Raised(Len(calls) + 1))
    /\ exception' = Error(Len(calls) + 1)
    /\ pc' = "raised"
    /\ UNCHANGED <<fn, response_text, lines, idx, current_category, reviews,
                   suggestions, overall_evaluation, rewritten, changes,
                   derived, caller, attempt, session, memory, tool, object,
                   youtube>>

\* review_content: the try block runs to its return.
tool_review_content_json ==
    /\ pc = "json"
    /\ TryJson(response_text).ok
    /\ reviews' = TryJson(response_text).points
    /\ pc' = "done"
    /\ UNCHANGED <<fn, response_text, lines, idx, current_category,
                   suggestions, overall_evaluation, rewritten, changes,
                   derived, calling, session, memory, tool, object, youtube>>

\* review_content: a statement of the try block raises; `except:` calls
\* _parse_text_response(response.text).
tool_review_content_except ==
    /\ pc = "json"
    /\ ~TryJson(response_text).ok
    /\ EnterLoop("_parse_text_response", response_text)
    /\ UNCHANGED <<derived, calling, session, memory, tool, object, youtube>>

\* review_content has returned to process_document: the rewrite for
\* FINAL_REWRITE, the dict for the other phases.
process_document_reviewed ==
    /\ pc = "done"
    /\ caller = "process_document"
    /\ fn \in {"review_content", "_parse_text_response"}
    /\ review_points' = reviews
    /\ IF IsFinalRewrite(phase)
       THEN /\ pc' = "generate"
            /\ fn' = "rewrite_content"
            /\ UNCHANGED document
       ELSE /\ pc' = "done"
            /\ fn' = "process_document"
            /\ document' = [phase |-> phase, review_points |-> reviews,
                            rewritten_content |-> None]
    /\ UNCHANGED <<response_text, lines, idx, current_category, reviews,
                   suggestions, overall_evaluation, rewritten, changes,
                   derived, calling, phase, session, memory, object, youtube>>

\* rewrite_content(content, review_points): generate_content returns and
\* response.text is the rewrite; process_document returns the dict.
tool_rewrite_content_returns ==
    /\ pc = "generate"
    /\ fn = "rewrite_content"
    /\ caller = "process_document"
    /\ \E text \in {Empty, <<"a">>, <<"b">>} :
           /\ calls' = Append(calls, ToolCall("rewrite_content", review_points, text))
           /\ document' = [phase |-> phase, review_points |-> review_points,
                           rewritten_content |-> text]
    /\ pc' = "done"
    /\ fn' = "process_document"
    /\ UNCHANGED <<response_text, lines, idx, current_category, reviews,
                   suggestions, overall_evaluation, rewritten, changes,
                   derived, caller, attempt, exception, phase, review_points,
                   session, memory, object, youtube>>

\* The caller has the dict; the locals are gone.
process_document_return ==
    /\ pc = "done"
    /\ fn = "process_document"
    /\ pc' = "idle"
    /\ fn' = "none"
    /\ response_text' = Empty
    /\ lines' = << >>
    /\ idx' = 0
    /\ current_category' = Empty
    /\ reviews' = << >>
    /\ content' = Empty
    /\ caller' = "none"
    /\ calls' = << >>
    /\ phase' = "none"
    /\ review_points' = << >>
    /\ document' = Unset
    /\ UNCHANGED <<suggestions, overall_evaluation, rewritten, changes,
                   highlighted_content, summary, attempt, exception,
                   session, memory, object, youtube>>

ToolNext ==
    \/ process_document_call
    \/ tool_review_content_returns
    \/ tool_generate_raises
    \/ tool_review_content_json
    \/ tool_review_content_except
    \/ parse_text_response_header
    \/ parse_text_response_issue
    \/ parse_text_response_other
    \/ parse_text_response_return
    \/ process_document_reviewed
    \/ tool_rewrite_content_returns
    \/ process_document_return

SpecTool == Init /\ [][ToolNext]_vars

----------------------------------------------------------------------------
(* YouTubeTranscriptHelper (utils/youtube_transcript.py).                  *)
(* The library lists the transcripts of a video, the manually created      *)
(* ones before the generated ones, or fails to list them.  A transcript    *)
(* has its language_code and is_generated, and its fetch raises or         *)
(* returns entries; a transcript is named by its place in the list.        *)
(* find_transcript([lang]) of the library returns the manually created     *)
(* transcript of the language and, when there is none, the generated one;  *)
(* find_generated_transcript([lang]) the generated one; both raise when    *)
(* they find none.                                                         *)

\* '...\n' and the six characters after it
CUT_MARK == <<".", ".", ".", NL, "(", "yi", "ge", "shou", "ryaku", ")">>

\* The videos: listing fails, or up to MaxTranscripts transcripts among
\* manual and generated ja, en, fr, each with what its fetch does: it
\* raises, returns no entry, blank entries, or entries with text.
Videos ==
    LET Kinds ==
            << [language_code |-> "ja", is_generated |-> FALSE],
               [language_code |-> "en", is_generated |-> FALSE],
               [language_code |-> "fr", is_generated |-> FALSE],
               [language_code |-> "ja", is_generated |-> TRUE],
               [language_code |-> "en", is_generated |-> TRUE],
               [language_code |-> "fr", is_generated |-> TRUE] >>
        Fetches ==
            { [raises |-> TRUE],
              [raises |-> FALSE, data |-> << >>],
              [raises |-> FALSE, data |-> << <<SP>>, <<NL>> >>],
              [raises |-> FALSE,
               data |-> << <<"a">>, <<SP>>, <<SP, "b", NL, NL, "c", NL>> >>] }
        Place(I, k) == CHOOSE j \in I : Cardinality({h \in I : h < j}) = k - 1
        Listed(I, f) ==
            [k \in 1..Cardinality(I) |->
                [language_code |-> Kinds[Place(I, k)].language_code,
                 is_generated |-> Kinds[Place(I, k)].is_generated,
                 fetch |-> f[Place(I, k)]]]
    IN  {[ok |-> FALSE]}
        \cup UNION { {[ok |-> TRUE, transcripts |-> Listed(I, f)] : f \in [I -> Fetches]} :
                     I \in {J \in SUBSET (1..6) : Cardinality(J) <= MaxTranscripts} }

\* The candidates of get_transcript, as places in the list of the video:
\* find_transcript for each language, find_generated_transcript for each
\* language, then the listed transcripts that are not candidates yet.
Candidates(listed, langs) ==
    LET Found(lang, generated) ==
            {k \in 1..Len(listed) : /\ listed[k].language_code = lang
                                     /\ listed[k].is_generated = generated}
        One(S) == CHOOSE k \in S : TRUE
        \* 0: the library raises, `except Exception: pass`
        find_transcript(lang) ==
            IF Found(lang, FALSE) # {} THEN One(Found(lang, FALSE))
            ELSE IF Found(lang, TRUE) # {} THEN One(Found(lang, TRUE))
            ELSE 0
        find_generated_transcript(lang) ==
            IF Found(lang, TRUE) # {} THEN One(Found(lang, TRUE)) ELSE 0
        IsFound(k) == k # 0
        preferred ==
            SelectSeq([k \in 1..Len(langs) |-> find_transcript(langs[k])], IsFound)
            \o SelectSeq([k \in 1..Len(langs) |-> find_generated_transcript(langs[k])],
                         IsFound)
        IsNew(k) == \A h \in 1..Len(preferred) : preferred[h] # k
    IN  preferred \o SelectSeq([k \in 1..Len(listed) |-> k], IsNew)

\* _fetch_and_format_transcript(transcript): the text, or None.
FetchAndFormat(t) ==
    LET NonEmpty(x) == x # Empty
        text_parts == SelectSeq([k \in 1..Len(t.fetch.data) |-> Strip(t.fetch.data[k])],
                                NonEmpty)
        full_text == Join(text_parts, <<NL>>)
        \* re.sub(r'\n+', '\n', full_text)
        Kept == {k \in 1..Len(full_text) :
                    ~(full_text[k] = NL /\ k > 1 /\ full_text[k - 1] = NL)}
        Place(k) == CHOOSE j \in Kept : Cardinality({h \in Kept : h < j}) = k - 1
    IN  IF t.fetch.raises THEN None
        ELSE IF t.fetch.data = << >> THEN None
        ELSE IF text_parts = << >> THEN None
        ELSE [k \in 1..Cardinality(Kept) |-> full_text[Place(k)]]

\* get_transcript(video_id, languages), called on its own.
get_transcript_call ==
    /\ pc = "idle"
    /\ \E v \in Videos : video' = v
    /\ \E langs \in {<<"ja", "en">>, <<"en">>} : languages' = langs
    /\ pc' = "list"
    /\ fn' = "get_transcript"
    /\ UNCHANGED <<candidates, fetched, transcript, max_length, info>>
    /\ UNCHANGED <<response_text, lines, idx, current_category, reviews,
                   suggestions, overall_evaluation, rewritten, changes,
                   derived, calling, session, memory, tool, object>>

\* get_summary(video_id, max_length): get_transcript(video_id) with the
\* default languages.
get_summary_call ==
    /\ pc = "idle"
    /\ \E v \in Videos : video' = v
    /\ \E m \in {3, 5} : max_length' = m
    /\ languages' = <<"ja", "en">>
    /\ pc' = "list"
    /\ fn' = "get_transcript"
    /\ caller' = "get_summary"
    /\ UNCHANGED <<candidates, fetched, transcript, info>>
    /\ UNCHANGED <<response_text, lines, idx, current_category, reviews,
                   suggestions, overall_evaluation, rewritten, changes,
                   derived, attempt, calls, exception, session, memory, tool,
                   object>>

\* list_transcripts raises (the outer except returns None), or the
\* candidates are built.
get_transcript_list ==
    /\ pc = "list"
    /\ IF video.ok
       THEN /\ candidates' = Candidates(video.transcripts, languages)
            /\ pc' = "try"
            /\ UNCHANGED transcript
       ELSE /\ transcript' = None
            /\ pc' = "returned"
            /\ UNCHANGED candidates
    /\ UNCHANGED <<video, languages, fetched, max_length, info>>
    /\ UNCHANGED <<fn, response_text, lines, idx, current_category, reviews,
                   suggestions, overall_evaluation, rewritten, changes,
                   derived, calling, session, memory, tool, object>>

\* One pass of the loop over the candidates: the text is returned, or the
\* next candidate is due.
get_transcript_try ==
    /\ pc = "try"
    /\ Len(fetched) < Len(candidates)
    /\ LET t == candidates[Len(fetched) + 1]
           full_text == FetchAndFormat(video.transcripts[t])
       IN  /\ fetched' = Append(fetched, t)
           /\ IF full_text # None /\ full_text # Empty
              THEN /\ transcript' = full_text
                   /\ pc' = "returned"
              ELSE UNCHANGED <<transcript, pc>>
    /\ UNCHANGED <<video, languages, candidates, max_length, info>>
    /\ UNCHANGED <<fn, response_text, lines, idx, current_category, reviews,
                   suggestions, overall_evaluation, rewritten, changes,
                   derived, calling, session, memory, tool, object>>

\* Every candidate has been tried: return None.
get_transcript_exhausted ==
    /\ pc = "try"
    /\ Len(fetched) = Len(candidates)
    /\ transcript' = None
    /\ pc' = "returned"
    /\ UNCHANGED <<video, languages, candidates, fetched, max_length, info>>
    /\ UNCHANGED <<fn, response_text, lines, idx, current_category, reviews,
                   suggestions, overall_evaluation, rewritten, changes,
                   derived, calling, session, memory, tool, object>>

\* get_summary after get_transcript: the dict it returns.
get_summary_return ==
    /\ pc = "returned"
    /\ caller = "get_summary"
    /\ info' = IF transcript = None \/ transcript = Empty
               THEN [success |-> FALSE, text |-> Empty]
               ELSE LET text == IF Len(transcript) > max_length
                                THEN SubSeq(transcript, 1, max_length) \o CUT_MARK
                                ELSE transcript
                    IN  [success |-> TRUE, text |-> text, length |-> Len(text)]
    /\ pc' = "done"
    /\ fn' = "get_summary"
    /\ UNCHANGED <<video, languages, candidates, fetched, transcript, max_length>>
    /\ UNCHANGED <<response_text, lines, idx, current_category, reviews,
                   suggestions, overall_evaluation, rewritten, changes,
                   derived, calling, session, memory, tool, object>>

\* The caller has the result; arguments and locals are gone.
youtube_return ==
    /\ \/ pc = "returned" /\ caller = "none"
       \/ pc = "done" /\ fn = "get_summary"
    /\ pc' = "idle"
    /\ fn' = "none"
    /\ caller' = "none"
    /\ video' = Unset
    /\ languages' = << >>
    /\ candidates' = << >>
    /\ fetched' = << >>
    /\ transcript' = None
    /\ max_length' = 0
    /\ info' = Unset
    /\ UNCHANGED <<response_text, lines, idx, current_category, reviews,
                   suggestions, overall_evaluation, rewritten, changes,
                   derived, attempt, calls, exception, session, memory, tool,
                   object>>

YoutubeNext ==
    \/ get_transcript_call
    \/ get_summary_call
    \/ get_transcript_list
    \/ get_transcript_try
    \/ get_transcript_exhausted
    \/ get_summary_return
    \/ youtube_return

SpecYoutube == Init /\ [][YoutubeNext]_vars

----------------------------------------------------------------------------
(* The two extractors on one response: parse_review_response (app.py) has  *)
(* returned and ScenarioReviewer._parse_review_response is called with the *)
(* same text, the records of the first call being kept.                    *)

same_text_reviewer_call ==
    /\ pc = "done"
    /\ fn = "parse_review_response"
    /\ earlier = NoCall
    /\ earlier' = CallOf(fn, response_text, reviews)
    /\ EnterLoop("_parse_review_response", response_text)
    /\ UNCHANGED <<round, derived, calling, session, tool, object, youtube>>

PairNext ==
    \/ parse_review_response_call
    \/ parse_review_response_header
    \/ parse_review_response_issue
    \/ parse_review_response_other
    \/ parse_review_response_return
    \/ same_text_reviewer_call
    \/ reviewer_parse_review_response_category
    \/ reviewer_parse_review_response_issue
    \/ reviewer_parse_review_response_other
    \/ reviewer_parse_review_response_return

SpecPair == Init /\ [][PairNext]_vars

----------------------------------------------------------------------------
(* Vocabulary of the properties. *)

Extractors == {"parse_review_response", "_parse_review_response"}

\* An extractor is in its loop or has returned: lines 1..idx-1 are handled.
Extracting(f) == pc \in {"loop", "done"} /\ fn = f

\* A category header as the specification defines it: a line that starts
\* with the opening bracket and ends with the closing one; its text is what
\* lies strictly between the two.
Wrapped(line) ==
    /\ Len(line) >= 2
    /\ line[1] = OPEN
    /\ line[Len(line)] = CLOSE

Between(line) == [k \in 1..(Len(line) - 2) |-> line[k + 1]]

\* The text of the last category header among the first n lines, "" if none.
LastHeaderText(ls, n) ==
    LET hs == {k \in 1..n : Wrapped(ls[k])}
    IN  IF hs = {} THEN Empty
        ELSE Between(ls[CHOOSE k \in hs : \A h \in hs : k >= h])

\* The lines among the first n that are to yield a record: issue lines that
\* match the issue pattern and follow a header of non-empty text.
Emitting(ls, n) ==
    {k \in 1..n : /\ ~Wrapped(ls[k])
                  /\ IssueMatch(ls[k]).matched
                  /\ LastHeaderText(ls, k - 1) # Empty}

\* The k-th smallest member of a set of numbers.
Nth(S, k) == CHOOSE j \in S : Cardinality({h \in S : h < j}) = k - 1

----------------------------------------------------------------------------
(* C1: parse_review_response and _parse_rewrite_response return a value    *)
(* for every input, never raising: no call ends in an exception, and      *)
(* parse_review_response returns the empty list when no line of the input  *)
(* matches the issue-line pattern.                                         *)
C1_Total ==
    /\ pc # "raised"
    /\ ( /\ pc = "done"
         /\ fn = "parse_review_response"
         /\ \A k \in 1..Len(lines) : ~IssueMatch(lines[k]).matched )
       => reviews = << >>

\* parse_review_response has returned the empty list on a header followed by
\* a line that starts with "- " and matches no issue pattern.
C1_Witness ==
    /\ pc = "done"
    /\ fn = "parse_review_response"
    /\ lines = << <<OPEN, "a", CLOSE>>, <<DASH, SP, "a">> >>
    /\ reviews = << >>

(* C2: in both extractors an issue line before any category header yields  *)
(* no record, and every record has a non-empty category.                   *)
C2_OrphanDrop ==
    \A f \in Extractors :
        Extracting(f) =>
            /\ (\A k \in 1..(idx - 1) : ~Wrapped(lines[k])) => reviews = << >>
            /\ \A k \in 1..Len(reviews) : reviews[k].category # Empty

\* C2 restricted to parse_review_response of app.py.
C2_OrphanDrop_app ==
    Extracting("parse_review_response") =>
        /\ (\A k \in 1..(idx - 1) : ~Wrapped(lines[k])) => reviews = << >>
        /\ \A k \in 1..Len(reviews) : reviews[k].category # Empty

\* The second half of C2 alone: no record of the two extractors has an empty
\* category.
C2_CategoryNonEmpty ==
    \A f \in Extractors :
        Extracting(f) => \A k \in 1..Len(reviews) : reviews[k].category # Empty

(* C3: in both extractors the current category is the text of the most     *)
(* recent category header among the lines handled so far (lines that are   *)
(* not headers never change it), and every record carries the text of the  *)
(* most recent header before its line.                                     *)
C3_Inheritance ==
    \A f \in Extractors :
        Extracting(f) =>
            /\ current_category = LastHeaderText(lines, idx - 1)
            /\ Len(reviews) = Cardinality(Emitting(lines, idx - 1))
            /\ \A k \in 1..Len(reviews) :
                   reviews[k].category =
                       LastHeaderText(lines, Nth(Emitting(lines, idx - 1), k) - 1)

\* C3 restricted to parse_review_response of app.py.
C3_Inheritance_app ==
    Extracting("parse_review_response") =>
        /\ current_category = LastHeaderText(lines, idx - 1)
        /\ Len(reviews) = Cardinality(Emitting(lines, idx - 1))
        /\ \A k \in 1..Len(reviews) :
               reviews[k].category =
                   LastHeaderText(lines, Nth(Emitting(lines, idx - 1), k) - 1)

(* C4: the records of parse_review_response are in the order of their      *)
(* source lines, one record per matching issue line: the k-th record is    *)
(* the record of the k-th line that yields one, so nothing is reordered    *)
(* and equal lines are not merged.                                         *)
C4_Order ==
    Extracting("parse_review_response") =>
        LET E == Emitting(lines, idx - 1)
        IN  /\ Len(reviews) = Cardinality(E)
            /\ \A k \in 1..Len(reviews) :
                   LET m == IssueMatch(lines[Nth(E, k)])
                   IN  /\ reviews[k].location = Strip(m.g1)
                       /\ reviews[k].issue = Strip(m.g2)
                       /\ reviews[k].suggestion = SuggestionOf(m)

\* Two different issue lines under a header have yielded their two records
\* in line order.
C4_Witness ==
    /\ pc = "done"
    /\ fn = "parse_review_response"
    /\ lines = << <<OPEN, "a", CLOSE>>,
                  <<DASH, SP, "b", COLON, "a">>,
                  <<DASH, SP, "a", COLON, "b">> >>
    /\ Len(reviews) = 2
    /\ reviews[1].location = <<"b">>
    /\ reviews[2].location = <<"a">>

\* Two equal issue lines have yielded two records.
C4_Witness_duplicates ==
    /\ pc = "done"
    /\ fn = "parse_review_response"
    /\ Len(lines) = 3
    /\ lines[2] = lines[3]
    /\ Len(reviews) = 2
    /\ reviews[1] = reviews[2]

----------------------------------------------------------------------------
(* The fields an issue line "- x" is claimed to yield: the location is the *)
(* text before the first colon, the issue the text between that colon and  *)
(* the first arrow after it (or the end of the line), the suggestion the   *)
(* text after that arrow ("" without arrow), each stripped.                *)

Body(line) == SubSeq(line, 3, Len(line))

BeforeFirst(s, sep) == SubSeq(s, 1, Find(s, sep) - 1)

AfterFirst(s, sep) == SubSeq(s, Find(s, sep) + Len(sep), Len(s))

ClaimedReview(cat, x) ==
    LET r == AfterFirst(x, <<COLON>>)
    IN  [category |-> cat,
         location |-> Strip(BeforeFirst(x, <<COLON>>)),
         issue |-> Strip(IF Contains(r, <<ARROW>>)
                         THEN BeforeFirst(r, <<ARROW>>) ELSE r),
         suggestion |-> IF Contains(r, <<ARROW>>)
                        THEN Strip(AfterFirst(r, <<ARROW>>)) ELSE Empty]

\* The loop of extractor f is at an issue line under an active category.
AtIssueLine(f) ==
    /\ InLoop(f)
    /\ StartsWith(lines[idx], <<DASH, SP>>)
    /\ current_category # Empty

\* x has a character before its first colon and one after it, and the first
\* arrow after that colon, if there is one, neither follows the colon at
\* once nor ends the line.
WellFormed(x) ==
    LET p == Find(x, <<COLON>>)
        r == AfterFirst(x, <<COLON>>)
        q == Find(r, <<ARROW>>)
    IN  /\ 2 <= p
        /\ p < Len(x)
        /\ q = 0 \/ (2 <= q /\ q < Len(r))

(* C5: for an issue line "- x" under an active category where x contains   *)
(* a colon, parse_review_response appends the record of the claimed        *)
(* fields.                                                                 *)
C5_Fields ==
    [][ ( /\ AtIssueLine("parse_review_response")
          /\ Contains(Body(lines[idx]), <<COLON>>) )
        => reviews' = Append(reviews,
                             ClaimedReview(current_category, Body(lines[idx])))
      ]_vars

(* C5 as amended: the same for an issue line "- x" whose x has at least    *)
(* one character before its first colon and at least one after it, and     *)
(* whose first arrow after that colon, if any, neither follows the colon   *)
(* at once nor ends the line; in both extractors.                          *)
C5_Fields_amended ==
    [][ \A f \in Extractors :
          ( /\ AtIssueLine(f)
            /\ WellFormed(Body(lines[idx])) )
          => reviews' = Append(reviews,
                               ClaimedReview(current_category, Body(lines[idx])))
      ]_vars

\* parse_review_response has just handled such a line with an arrow and
\* appended its record, suggestion included.
C5_Witness ==
    /\ Extracting("parse_review_response")
    /\ idx >= 2
    /\ idx - 1 <= Len(lines)
    /\ StartsWith(lines[idx - 1], <<DASH, SP>>)
    /\ WellFormed(Body(lines[idx - 1]))
    /\ Contains(Body(lines[idx - 1]), <<ARROW>>)
    /\ Len(reviews) >= 1
    /\ reviews[Len(reviews)] =
           ClaimedReview(current_category, Body(lines[idx - 1]))
    /\ reviews[Len(reviews)].suggestion # Empty

(* C6: in both extractors a line is treated as a category header exactly   *)
(* when it starts with the opening bracket and ends with the closing one:  *)
(* such a line sets the current category to the text strictly between the  *)
(* two and yields no record, and no other line changes the category.       *)
C6_HeaderIff ==
    [][ \A f \in Extractors :
          InLoop(f) =>
              IF Wrapped(lines[idx])
              THEN /\ current_category' = Between(lines[idx])
                   /\ reviews' = reviews
              ELSE current_category' = current_category
      ]_vars

\* C6 restricted to parse_review_response of app.py.
C6_HeaderIff_app ==
    [][ InLoop("parse_review_response") =>
            IF Wrapped(lines[idx])
            THEN /\ current_category' = Between(lines[idx])
                 /\ reviews' = reviews
            ELSE current_category' = current_category
      ]_vars

(* C7: every record of the extractors has a non-empty issue.               *)
C7_IssueNonEmpty ==
    \A k \in 1..Len(reviews) : reviews[k].issue # Empty

----------------------------------------------------------------------------
\* _parse_rewrite_response has returned on a response with both markers.
SplitDone ==
    /\ pc = "done"
    /\ fn = "_parse_rewrite_response"
    /\ Contains(response_text, REWRITTEN_MARKER)
    /\ Contains(response_text, CHANGES_MARKER)

\* s without its first occurrence of old.
RemoveFirst(s, old) ==
    IF Contains(s, old) THEN BeforeFirst(s, old) \o AfterFirst(s, old) ELSE s

(* C8: with both markers present the changes summary is everything after   *)
(* the first changes-section marker, stripped.                             *)
C8_ChangesAfterFirst ==
    SplitDone => changes = Strip(AfterFirst(response_text, CHANGES_MARKER))

(* C9: with both markers present the document is the text before the first *)
(* changes-section marker without its first rewritten-section marker,      *)
(* stripped; a second rewritten-section marker stays.                      *)
C9_DocumentFirstOnly ==
    SplitDone =>
        rewritten = Strip(RemoveFirst(BeforeFirst(response_text, CHANGES_MARKER),
                                      REWRITTEN_MARKER))

(* C10: when one of the two markers is missing, the document is the whole  *)
(* response stripped and the changes summary is the fixed sentence.        *)
C10_Fallback ==
    ( /\ pc = "done"
      /\ fn = "_parse_rewrite_response"
      /\ \/ ~Contains(response_text, REWRITTEN_MARKER)
         \/ ~Contains(response_text, CHANGES_MARKER) )
    => /\ rewritten = Strip(response_text)
       /\ changes = NO_SUMMARY

\* _parse_rewrite_response has returned on a response that holds the
\* changes-section marker alone, between blanks.
C10_Witness ==
    /\ pc = "done"
    /\ fn = "_parse_rewrite_response"
    /\ response_text = <<SP>> \o CHANGES_MARKER \o <<"a", SP>>
    /\ rewritten = CHANGES_MARKER \o <<"a">>
    /\ changes = NO_SUMMARY

----------------------------------------------------------------------------
\* The highlighter is in its loop or has returned: records 1..idx-1 are
\* handled.
Highlighting == pc \in {"loop", "done"} /\ fn = "highlight_issues_in_text"

\* The highlighter is at a record.
AtReview ==
    /\ pc = "loop"
    /\ fn = "highlight_issues_in_text"
    /\ idx <= Len(reviews)

\* text with the first occurrence of location wrapped, the rest as it was.
FirstWrapped(text, location) ==
    BeforeFirst(text, location) \o Span(location) \o AfterFirst(text, location)

(* C11: highlight_issues_in_text handles the records in sequence order on  *)
(* one working copy that starts as the content, and a record whose         *)
(* location occurs in the working copy wraps the first occurrence only:    *)
(* the later occurrences stay as they are.                                 *)
C11_FirstOccurrenceOnly ==
    [][ ( /\ AtReview
          /\ Contains(highlighted_content, reviews[idx].location) )
        => /\ highlighted_content' =
                  FirstWrapped(highlighted_content, reviews[idx].location)
           /\ idx' = idx + 1
      ]_vars

\* The part of C11 that holds: the records are handled one by one in
\* sequence order, each on the working copy the records before it left.
C11_Sequential ==
    [][ AtReview =>
          /\ idx' = idx + 1
          /\ highlighted_content' =
                 Replace(highlighted_content, reviews[idx].location,
                         Span(reviews[idx].location))
          /\ UNCHANGED <<content, reviews>>
      ]_vars

(* C12: highlight_issues_in_text(content, []) returns content unchanged; a *)
(* record whose location does not occur in the working copy leaves the     *)
(* working copy as it is, and no call raises; so with records none of      *)
(* whose locations occur in content the result is content.                 *)
C12_AbsentUnchanged ==
    /\ [][ ( /\ AtReview
             /\ ~Contains(highlighted_content, reviews[idx].location) )
           => /\ highlighted_content' = highlighted_content
              /\ pc' = "loop"
         ]_vars
    /\ [](Highlighting =>
            /\ pc # "raised"
            /\ (\A k \in 1..(idx - 1) : ~Contains(content, reviews[k].location))
               => highlighted_content = content)

\* The highlighter has returned the content as it was, given two records
\* whose locations do not occur in it.
C12_Witness ==
    /\ pc = "done"
    /\ fn = "highlight_issues_in_text"
    /\ content = <<"x", "x">>
    /\ Len(reviews) = 2
    /\ reviews[1].location = <<"b">>
    /\ reviews[2].location = <<"x", "b">>
    /\ highlighted_content = content

\* The highlighter has returned the content as it was, given no record.
C12_Witness_empty ==
    /\ pc = "done"
    /\ fn = "highlight_issues_in_text"
    /\ content = <<"x", "b">>
    /\ reviews = << >>
    /\ highlighted_content = content

----------------------------------------------------------------------------
Aggregators == {"extract_issues_summary", "category_counts"}

\* The sum of the values of the dict d under the keys K.
RECURSIVE SumOver(_, _)
SumOver(d, K) ==
    IF K = {} THEN 0
    ELSE LET key == CHOOSE x \in K : TRUE
         IN  d[key] + SumOver(d, K \ {key})

(* C13: for every sequence of records, the values of the category count    *)
(* (extract_issues_summary, and category_counts of the app) sum to the     *)
(* length of the sequence and its keys are the distinct categories of the  *)
(* sequence; during the loop the same holds of the records counted so far. *)
C13_SumAndKeys ==
    \A f \in Aggregators :
        (pc \in {"loop", "done"} /\ fn = f) =>
            /\ SumOver(summary, DOMAIN summary) = idx - 1
            /\ DOMAIN summary = {reviews[k].category : k \in 1..(idx - 1)}
            /\ pc = "done" => idx - 1 = Len(reviews)

\* Both counts have returned a:2, b:1 for records of the categories a, b, a.
C13_Witness ==
    /\ pc = "done"
    /\ fn = "extract_issues_summary"
    /\ Len(reviews) = 3
    /\ reviews[1].category = <<"a">>
    /\ reviews[2].category = <<"b">>
    /\ reviews[3].category = <<"a">>
    /\ DOMAIN summary = {<<"a">>, <<"b">>}
    /\ summary[<<"a">>] = 2
    /\ summary[<<"b">>] = 1

\* The same for the count of the app.
C13_Witness_app ==
    /\ pc = "done"
    /\ fn = "category_counts"
    /\ Len(reviews) = 3
    /\ reviews[1].category = <<"a">>
    /\ reviews[2].category = <<"b">>
    /\ reviews[3].category = <<"a">>
    /\ DOMAIN summary = {<<"a">>, <<"b">>}
    /\ summary[<<"a">>] = 2
    /\ summary[<<"b">>] = 1

----------------------------------------------------------------------------
Min(a, b) == IF a <= b THEN a ELSE b

\* The last n elements of s.
LastN(s, n) == SubSeq(s, Len(s) - n + 1, Len(s))

(* C14: after n calls of create_backup the buffer holds min(n, 10)         *)
(* entries: those of the most recent calls, in call order.                 *)
C14_LatestTen ==
    LET n == Len(backup_log)
    IN  /\ Len(backup_data) = Min(n, 10)
        /\ backup_data = LastN(backup_log, Min(n, 10))

\* After eleven calls the buffer holds the entries of the calls 2 to 11.
C14_Witness ==
    /\ Len(backup_log) = 11
    /\ Len(backup_data) = 10
    /\ backup_data[1] = backup_log[2]
    /\ backup_data[10] = backup_log[11]
    /\ backup_data[1].timestamp < backup_data[10].timestamp

(* C15: the review history holds at most N = MAX_HISTORY_RECORDS entries,  *)
(* whatever the number of successful runs.                                 *)
C15_HistoryBounded == Len(review_history) <= MAX_HISTORY_RECORDS

\* A run step with the operator's name empty: the click on the run button
\* and what follows it up to the end of the script.
RunWithoutName ==
    /\ user_name = Empty
    /\ \/ pc = "idle" /\ pc' # "idle"
       \/ pc \notin {"idle"}

(* C20: a click on the run button while the operator's name is empty only  *)
(* shows the warning: no backup entry is made, the model is not called and *)
(* the history stays as it is, up to the end of that run.                  *)
C20_NoNameNoRun ==
    [][ RunWithoutName =>
          /\ pc' \in {"warning", "idle"}
          /\ UNCHANGED <<backup_data, backup_log, review_history, calls,
                         clock>>
      ]_vars

\* The warning is shown after a click without a name, following a run
\* with a name: one backup, one entry of the history, and nothing more.
C20_Witness ==
    /\ pc = "warning"
    /\ user_name = Empty
    /\ Len(backup_data) = 1
    /\ Len(review_history) = 1
    /\ calls = << >>

----------------------------------------------------------------------------
(* C18: _parse_text_response creates a ReviewPoint only under an active    *)
(* category: an issue line before any category header yields none, and no  *)
(* ReviewPoint has an empty category.                                      *)
C18_OrphanDrop_text ==
    Extracting("_parse_text_response") =>
        /\ (\A k \in 1..(idx - 1) : ~Wrapped(lines[k])) => reviews = << >>
        /\ \A k \in 1..Len(reviews) : reviews[k].category # Empty

----------------------------------------------------------------------------
\* The callers of the model.
Callers == {"review_content", "rewrite_content", "run"}

\* This step is a call of generate_content that fails.
FailedCall ==
    /\ Len(calls') = Len(calls) + 1
    /\ ~calls'[Len(calls')].ok

(* C16: when a call of generate_content fails and its caller has made      *)
(* fewer than RETRY_ATTEMPTS calls, the caller goes on to another call     *)
(* and reports no failure; for review_content, rewrite_content and the     *)
(* run action.                                                             *)
C16_RetryEveryCaller ==
    [][ \A c \in Callers :
          (caller = c /\ FailedCall /\ Len(calls') < RETRY_ATTEMPTS)
          => /\ pc' = "generate"
             /\ exception' = NoException
      ]_vars

\* C16 for review_content alone.
C16_Retry_review_content ==
    [][ (caller = "review_content" /\ FailedCall /\ Len(calls') < RETRY_ATTEMPTS)
        => /\ pc' = "generate"
           /\ exception' = NoException
      ]_vars

\* C16 for the run action alone.
C16_Retry_run ==
    [][ (caller = "run" /\ FailedCall /\ Len(calls') < RETRY_ATTEMPTS)
        => pc' = "generate"
      ]_vars

(* C19: review_content calls the model at most 3 times; a call that        *)
(* returns is the last one, and review_content returns the parsed result   *)
(* of that response; it raises only after 3 failed calls in a row, the     *)
(* exception being that of the third; it never returns without a result.   *)
C19_RetryLoop ==
    caller = "review_content" =>
        /\ Len(calls) <= 3
        /\ \A k \in 1..(Len(calls) - 1) : ~calls[k].ok
        /\ pc \in {"loop", "done"} =>
               /\ fn = "_parse_review_response"
               /\ calls # << >>
               /\ calls[Len(calls)].ok
               /\ response_text = calls[Len(calls)].text
               /\ lines = Split(response_text, <<NL>>)
        /\ pc = "done" =>
               /\ idx > Len(lines)
               /\ overall_evaluation = OverallEvaluation(response_text)
        /\ pc = "raised" =>
               /\ Len(calls) = 3
               /\ \A k \in 1..3 : ~calls[k].ok
               /\ exception = calls[3].error
        /\ pc = "generate" =>
               /\ \A k \in 1..Len(calls) : ~calls[k].ok
               /\ Len(calls) < 3

\* review_content has returned the result of the third call, the first two
\* having failed.
C19_Witness ==
    /\ caller = "review_content"
    /\ pc = "done"
    /\ Len(calls) = 3
    /\ ~calls[1].ok
    /\ ~calls[2].ok
    /\ calls[3].ok
    /\ Len(reviews) = 2

\* review_content has raised the exception of the third call.
C19_Witness_raised ==
    /\ caller = "review_content"
    /\ pc = "raised"
    /\ Len(calls) = 3
    /\ exception = Error(3)

\* C17: two calls of parse_review_response, or of _parse_rewrite_response,
\* with the same response text return equal results, whatever calls were
\* made before the first of them or between the two.
SameCallReturned ==
    /\ pc = "done"
    /\ earlier # NoCall
    /\ earlier.fn = fn
    /\ earlier.text = response_text

C17_Deterministic == SameCallReturned => Result(fn) = earlier.result

\* The extractor has returned records for the second time, a call on
\* another text lying between the two calls.
C17_Witness ==
    /\ SameCallReturned
    /\ fn = "parse_review_response"
    /\ reviews # << >>
    /\ round = 3

\* The same for the splitter, a call of the extractor lying between.
C17_Witness_rewrite ==
    /\ SameCallReturned
    /\ fn = "_parse_rewrite_response"
    /\ HasBothMarkers(response_text)
    /\ round = 3
    /\ reviews # << >>

(* C21: in a run with an operator name the backup entry is appended        *)
(* before the model is called; the history grows, by the one entry of the  *)
(* run, exactly in the step in which the call and the showing of the       *)
(* result have completed; when the call or the showing fails the history   *)
(* stays as it is and the backup entry of the run is kept.                 *)
RunStarts == pc = "idle" /\ pc' = "generate"

RunEnds == pc = "generate" /\ pc' # "generate"

HistoryEntry ==
    [user |-> user_name, char_count |-> Len(content), result |-> response_text']

C21_BackupThenHistory ==
    [][ /\ RunStarts =>
            /\ NameGiven(user_name)
            /\ backup_log' = Append(backup_log, BackupEntry([content |-> content']))
            /\ backup_data' # << >>
            /\ backup_data'[Len(backup_data')] = backup_log'[Len(backup_log')]
            /\ calls' = << >>
            /\ review_history' = review_history
        /\ RunEnds =>
            /\ Len(calls') = 1
            /\ backup_data' = backup_data
            /\ backup_log' = backup_log
            /\ backup_data # << >>
            /\ backup_data[Len(backup_data)].data = [content |-> content]
            /\ IF pc' = "success"
               THEN /\ calls'[1].ok
                    /\ review_history' = Append(review_history, HistoryEntry)
               ELSE /\ pc' = "error"
                    /\ review_history' = review_history
        /\ Len(review_history') > Len(review_history) =>
            RunEnds /\ pc' = "success"
      ]_vars

\* The model call of a second run has failed: the history holds the entry of
\* the first run, the buffer the backups of both.
C21_Witness ==
    /\ pc = "error"
    /\ caller = "run"
    /\ ~calls[1].ok
    /\ Len(review_history) = 1
    /\ Len(backup_data) = 2

\* The showing of the result has failed after the call returned.
C21_Witness_render ==
    /\ pc = "error"
    /\ caller = "run"
    /\ calls[1].ok
    /\ review_history = << >>
    /\ Len(backup_data) = 1

----------------------------------------------------------------------------
\* process_document has built the dict it returns.
DocumentBuilt == pc = "done" /\ fn = "process_document"

(* C22: process_document for FINAL_REWRITE performs the review and then    *)
(* the rewrite with the points of that review, and rewritten_content is    *)
(* the output of the rewrite; for every other phase the rewrite is never   *)
(* invoked and rewritten_content is None; review_points holds the points   *)
(* of exactly one review.                                                  *)
C22_ReviewThenRewrite ==
    /\ (caller = "process_document" /\ fn = "rewrite_content") =>
           /\ phase = "FINAL_REWRITE"
           /\ calls # << >>
           /\ calls[1].ok
           /\ calls[1].method = "review_content"
    /\ DocumentBuilt =>
           /\ calls[1].method = "review_content"
           /\ document.phase = phase
           /\ document.review_points = reviews
           /\ IF phase = "FINAL_REWRITE"
              THEN /\ Len(calls) = 2
                   /\ calls[2].method = "rewrite_content"
                   /\ calls[2].points = reviews
                   /\ document.rewritten_content = calls[2].text
              ELSE /\ Len(calls) = 1
                   /\ document.rewritten_content = None

\* FINAL_REWRITE with a review that found points and a rewrite that
\* returned text.
C22_Witness ==
    /\ DocumentBuilt
    /\ phase = "FINAL_REWRITE"
    /\ document.review_points # << >>
    /\ document.rewritten_content = <<"a">>

\* Another phase, the review having found points.
C22_Witness_review_only ==
    /\ DocumentBuilt
    /\ phase = "PLOT_REVIEW"
    /\ document.review_points # << >>

----------------------------------------------------------------------------
\* review_content of the tool has returned.
ToolReviewed ==
    /\ caller = "process_document"
    /\ pc = "done"
    /\ fn \in {"review_content", "_parse_text_response"}

\* d[key] of a JSON object.
Member(v, key) ==
    v.members[CHOOSE k \in 1..Len(v.members) :
                  /\ v.members[k][1] = key
                  /\ \A h \in (k + 1)..Len(v.members) : v.members[h][1] # key][2]

MemberKeys(v) == {v.members[k][1] : k \in 1..Len(v.members)}

\* The text is JSON of the shape the prompt asks for: an object whose
\* "issues" is a list of objects with the four fields and no other.
ExpectedShape(text) ==
    LET r == json_loads(text)
    IN  /\ r.ok
        /\ r.val.type = "obj"
        /\ "'issues'" \in MemberKeys(r.val)
        /\ Member(r.val, "'issues'").type = "arr"
        /\ \A k \in 1..Len(Member(r.val, "'issues'").items) :
               LET issue == Member(r.val, "'issues'").items[k]
               IN  /\ issue.type = "obj"
                   /\ MemberKeys(issue) =
                          {"'category'", "'location'", "'issue'", "'suggestion'"}

\* The ReviewPoints of the "issues" list, one for each object, in order.
JsonPoints(text) ==
    LET items == Member(json_loads(text).val, "'issues'").items
    IN  [k \in 1..Len(items) |->
            [category |-> Member(items[k], "'category'"),
             location |-> Member(items[k], "'location'"),
             issue |-> Member(items[k], "'issue'"),
             suggestion |-> Member(items[k], "'suggestion'")]]

\* What _parse_text_response returns for the lines from the k-th on, cat
\* being the category at that line.
RECURSIVE TextPointsFrom(_, _, _)
TextPointsFrom(ls, k, cat) ==
    IF k > Len(ls) THEN << >>
    ELSE IF IsHeaderLine(ls[k])
    THEN TextPointsFrom(ls, k + 1, HeaderText(ls[k]))
    ELSE IF StartsWith(ls[k], <<DASH, SP>>) /\ Contains(Body(ls[k]), <<COLON>>)
    THEN <<ReviewPointOf(cat, Body(ls[k]))>> \o TextPointsFrom(ls, k + 1, cat)
    ELSE TextPointsFrom(ls, k + 1, cat)

TextPoints(text) == TextPointsFrom(Split(text, <<NL>>), 1, Empty)

(* C23: review_content of the tool returns the ReviewPoints of the JSON    *)
(* "issues" list when the response is JSON of the expected shape; in every *)
(* other case it returns what _parse_text_response returns for the same    *)
(* text; once the model has answered it does not raise.                    *)
C23_JsonOrText ==
    /\ ToolReviewed =>
           reviews = IF ExpectedShape(response_text)
                     THEN JsonPoints(response_text)
                     ELSE TextPoints(response_text)
    /\ (caller = "process_document" /\ pc = "raised") =>
           ~calls[Len(calls)].ok

\* Valid JSON of another shape (a field too many, a field missing, no list):
\* the text parser has run.
C23_Witness ==
    /\ ToolReviewed
    /\ fn = "_parse_text_response"
    /\ json_loads(response_text).ok
    /\ "'extra'" \in {response_text[k] : k \in 1..Len(response_text)}

\* JSON of the expected shape with two issue objects.
C23_Witness_json ==
    /\ ToolReviewed
    /\ fn = "review_content"
    /\ Len(reviews) = 2

\* Text that is no JSON and holds an issue line.
C23_Witness_text ==
    /\ ToolReviewed
    /\ ~json_loads(response_text).ok
    /\ reviews # << >>

----------------------------------------------------------------------------
\* get_transcript is trying the candidates or has returned.
Trying == fn = "get_transcript" /\ pc \in {"try", "returned"}

\* The order of the claim: the manual transcript of each language of the
\* list, the generated transcript of each language, every other transcript.
ClaimedOrder(listed, langs) ==
    LET Of(lang, generated) ==
            {k \in 1..Len(listed) : /\ listed[k].language_code = lang
                                     /\ listed[k].is_generated = generated}
        Pick(lang, generated) ==
            IF Of(lang, generated) # {}
            THEN CHOOSE k \in Of(lang, generated) : TRUE ELSE 0
        IsFound(k) == k # 0
        preferred ==
            SelectSeq([k \in 1..Len(langs) |-> Pick(langs[k], FALSE)], IsFound)
            \o SelectSeq([k \in 1..Len(langs) |-> Pick(langs[k], TRUE)], IsFound)
        IsNew(k) == \A h \in 1..Len(preferred) : preferred[h] # k
    IN  preferred \o SelectSeq([k \in 1..Len(listed) |-> k], IsNew)

\* The transcript at place t of the list yields text.
Yields(t) ==
    LET text == FetchAndFormat(video.transcripts[t])
    IN  text # None /\ text # Empty

\* The fetches made are those of the first transcripts of the order, none
\* after one that yields text; the text returned is that of the first
\* transcript of the order that yields text, None if there is none.
TriedInOrder(order) ==
    /\ Len(fetched) <= Len(order)
    /\ fetched = SubSeq(order, 1, Len(fetched))
    /\ \A k \in 1..(Len(fetched) - 1) : ~Yields(fetched[k])
    /\ pc = "returned" =>
           IF \E k \in 1..Len(order) : Yields(order[k])
           THEN /\ fetched # << >>
                /\ Yields(fetched[Len(fetched)])
                /\ transcript = FetchAndFormat(video.transcripts[fetched[Len(fetched)]])
           ELSE /\ fetched = order
                /\ transcript = None

(* C24: get_transcript tries the manual transcripts of the priority        *)
(* languages in list order, then the generated ones of the priority        *)
(* languages, then every remaining transcript; it returns the text of the  *)
(* first that yields text and fetches none after it; it returns None when  *)
(* all fail or are empty, or when listing fails; it never raises.          *)
C24_CandidateOrder ==
    Trying =>
        /\ pc # "raised"
        /\ IF video.ok
           THEN TriedInOrder(ClaimedOrder(video.transcripts, languages))
           ELSE fetched = << >> /\ transcript = None

\* C24 with the order of the candidates list for the order of the claim.
C24_CodeOrder ==
    Trying =>
        IF video.ok
        THEN TriedInOrder(candidates)
        ELSE fetched = << >> /\ transcript = None

\* No transcript is fetched twice.
C24_NoSecondFetch ==
    \A h, k \in 1..Len(fetched) : fetched[h] = fetched[k] => h = k

----------------------------------------------------------------------------
\* get_summary has returned a transcript.
Summarised == pc = "done" /\ fn = "get_summary" /\ info.success

(* C25: the text of a successful get_summary has at most max_length        *)
(* characters, and the reported length is the length of the text.          *)
C25_AtMostMaxLength ==
    Summarised =>
        /\ Len(info.text) <= max_length
        /\ info.length = Len(info.text)

\* C25 without the limit: the second half.
C25_LengthReported == Summarised => info.length = Len(info.text)

\* C25 for the transcripts that are not longer than max_length.
C25_ShortUnchanged ==
    (Summarised /\ Len(transcript) <= max_length) => info.text = transcript

----------------------------------------------------------------------------
\* Both extractors have returned for the same text.
BothReturned ==
    /\ pc = "done"
    /\ fn = "_parse_review_response"
    /\ earlier # NoCall

\* The two extractors take the same lines for headers, with the same text.
SameHeaders ==
    \A k \in 1..Len(lines) :
        IF IsHeaderLine(lines[k])
        THEN /\ CategoryPatternMatch(lines[k]).matched
             /\ CategoryPatternMatch(lines[k]).g1 = HeaderText(lines[k])
        ELSE ~CategoryPatternMatch(lines[k]).matched

(* C26: for every response text parse_review_response (app.py) and         *)
(* ScenarioReviewer._parse_review_response return the same sequence of     *)
(* category/location/issue/suggestion records.                             *)
C26_ExtractorsAgree == BothReturned => reviews = earlier.result

\* C26 for the texts in which both take the same lines for headers.
C26_AgreeOnSameHeaders == (BothReturned /\ SameHeaders) => reviews = earlier.result

\* Such a text with records.
C26_Witness_same_headers == BothReturned /\ SameHeaders /\ Len(reviews) = 2

----------------------------------------------------------------------------
\* rewrite_content is running or has just returned or raised.
Rewriting == caller = "rewrite_content" /\ pc' # "idle"

(* C27: rewrite_content changes only rewritten_content and changes_summary *)
(* of the ReviewResult it is given and returns that same object; phase,    *)
(* issues, suggestions and overall_evaluation stay as they are, and when   *)
(* the model call fails no field is changed.                               *)
C27_Frame ==
    [][ Rewriting =>
          /\ review_result'.phase = review_result.phase
          /\ review_result'.issues = review_result.issues
          /\ review_result'.suggestions = review_result.suggestions
          /\ review_result'.overall_evaluation = review_result.overall_evaluation
          /\ pc' = "raised" => review_result' = review_result /\ returned' = "none"
          /\ returned' # returned =>
                 /\ returned' = "review_result"
                 /\ review_result'.rewritten_content = rewritten
                 /\ review_result'.changes_summary = changes
          /\ returned' = returned => review_result' = review_result
      ]_vars

\* rewrite_content has returned the object of a review with an issue, the
\* response holding both markers.
C27_Witness ==
    /\ caller = "rewrite_content"
    /\ returned = "review_result"
    /\ review_result.issues # << >>
    /\ HasBothMarkers(response_text)
    /\ review_result.rewritten_content = rewritten
    /\ rewritten # <<"b">>

\* The model call has failed: the object is as it was given.
C27_Witness_raised ==
    /\ caller = "rewrite_content"
    /\ pc = "raised"
    /\ review_result.rewritten_content = <<"b">>

====
